---- MODULE Spec2Model ----
(***************************************************************************)
(* Training-program discovery: the cache-first recommendation endpoint,    *)
(* the live-search endpoint, the deduplicator and the cache write-through  *)
(* of backend/app/api/routes/training.py, with the CareerOneStop adapter   *)
(* of backend/app/services/external_apis.py, and the constraint matching   *)
(* and enrichment of the training search agent                             *)
(* (backend/app/services/agents/training_search_agent/agent.py).           *)
(*                                                                         *)
(* Python strings are sequences of one-character strings, so that lower(), *)
(* replace() and the substring test `kw in text` are computed.  None is    *)
(* the one-element sequence NoneVal, which no text equals.                 *)
(***************************************************************************)
EXTENDS Integers, Sequences, FiniteSets, TLC

VARIABLES settings, index, cache, req, last, served, dd, mc

vars == <<settings, index, cache, req, last, served, dd, mc>>

(***************************************************************************)
(* Bounds of the model.                                                    *)
(***************************************************************************)
\* raw programs one request collects over its eight queries
MaxRaw == 2
\* requests served in one behaviour
MaxRequests == 2
\* length of the candidate lists given to the deduplicator on its own
MaxLen == 3

(***************************************************************************)
(* Text.                                                                   *)
(***************************************************************************)
NoneVal == <<"<None>">>
Empty == <<>>

\* Python truthiness of an optional string
Truthy(v) == v # NoneVal /\ v # Empty

\* `v or ''`
OrEmpty(v) == IF Truthy(v) THEN v ELSE Empty

UpperChars == <<"A","B","C","D","E","F","G","H","I","J","K","L","M",
                "N","O","P","Q","R","S","T","U","V","W","X","Y","Z">>
LowerChars == <<"a","b","c","d","e","f","g","h","i","j","k","l","m",
                "n","o","p","q","r","s","t","u","v","w","x","y","z">>

LowerChar(c) ==
    IF \E i \in 1..26 : UpperChars[i] = c
    THEN LowerChars[CHOOSE i \in 1..26 : UpperChars[i] = c]
    ELSE c

\* str.lower()
Lower(s) == [i \in 1..Len(s) |-> LowerChar(s[i])]

\* str.replace(a, b) for one-character a and b
Replace(s, a, b) == [i \in 1..Len(s) |-> IF s[i] = a THEN b ELSE s[i]]

\* `kw in text`
Contains(text, kw) ==
    \E i \in 1..(Len(text) - Len(kw) + 1) : SubSeq(text, i, i + Len(kw) - 1) = kw

\* whitespace collapsed to single blanks and trimmed at both ends
RECURSIVE Collapse(_)
Collapse(s) ==
    IF s = <<>> THEN <<>>
    ELSE IF Head(s) = " " /\ (Len(s) = 1 \/ s[2] = " ") THEN Collapse(Tail(s))
    ELSE <<Head(s)>> \o Collapse(Tail(s))

Trim(s) == IF s # <<>> /\ Head(s) = " " THEN Tail(s) ELSE s

\* the identity normalisation of a program name the specification describes:
\* case-folded, whitespace trimmed and collapsed
NormalizeName(s) == IF s = NoneVal THEN s ELSE Trim(Collapse(Lower(s)))

COAL_MINER_KEYWORDS == {
    <<"c","o","a","l"," ","m","i","n","e","r">>,
    <<"c","o","a","l"," ","w","o","r","k","e","r">>,
    <<"m","i","n","i","n","g"," ","t","r","a","n","s","i","t","i","o","n">>,
    <<"d","i","s","p","l","a","c","e","d"," ","m","i","n","e","r">>,
    <<"c","o","a","l"," ","c","o","m","m","u","n","i","t","y">>,
    <<"m","i","n","e"," ","w","o","r","k","e","r"," ","r","e","t","r","a","i","n","i","n","g">>,
    <<"a","p","p","a","l","a","c","h","i","a","n"," ","t","r","a","n","s","i","t","i","o","n">> }

RENEWABLE_ENERGY_KEYWORDS == {
    <<"s","o","l","a","r">>,
    <<"w","i","n","d">>,
    <<"r","e","n","e","w","a","b","l","e"," ","e","n","e","r","g","y">>,
    <<"c","l","e","a","n"," ","e","n","e","r","g","y">>,
    <<"p","h","o","t","o","v","o","l","t","a","i","c">>,
    <<"w","i","n","d"," ","t","u","r","b","i","n","e">>,
    <<"s","o","l","a","r"," ","i","n","s","t","a","l","l","e","r">>,
    <<"s","o","l","a","r"," ","t","e","c","h","n","i","c","i","a","n">>,
    <<"r","e","n","e","w","a","b","l","e"," ","t","e","c","h","n","i","c","i","a","n">> }

\* the free/grant/funded indicators of the budget bonus
FreeWord == <<"f","r","e","e">>
GrantWord == <<"g","r","a","n","t">>
FundedWord == <<"f","u","n","d","e","d">>

(***************************************************************************)
(* Regions.                                                                *)
(***************************************************************************)
WestVirginia == <<"w","e","s","t","_","v","i","r","g","i","n","i","a">>
Kentucky == <<"k","e","n","t","u","c","k","y">>
Pennsylvania == <<"p","e","n","n","s","y","l","v","a","n","i","a">>
Ohio == <<"o","h","i","o">>

STATE_ZIP_MAP ==
    [s \in {WestVirginia, Kentucky, Pennsylvania} |->
        IF s = WestVirginia THEN "25301"
        ELSE IF s = Kentucky THEN "40502" ELSE "15219"]

\* STATE_ZIP_MAP.get(user_state)
ZipCode(user_state) ==
    IF user_state \in DOMAIN STATE_ZIP_MAP THEN STATE_ZIP_MAP[user_state] ELSE "None"

\* the region codes requests and profiles carry in the model: one the maps
\* know and one they do not
StateCodes == {WestVirginia, Ohio}

(***************************************************************************)
(* Programs.  A raw program is a Python dict: a function from the keys it  *)
(* has to their values.                                                    *)
(***************************************************************************)
\* dict.get(k, d)
Get(p, k, d) == IF k \in DOMAIN p THEN p[k] ELSE d

SolarTech == <<"S","o","l","a","r"," ","T","e","c","h">>
SolarTechLower == <<"s","o","l","a","r"," ","t","e","c","h">>
CoalMinerSolar == <<"C","o","a","l"," ","M","i","n","e","r"," ","S","o","l","a","r">>
WVU == <<"W","V","U">>
KCTCS == <<"K","C","T","C","S">>
WestVirginiaText == <<"W","e","s","t"," ","V","i","r","g","i","n","i","a">>
FreeText == <<"F","r","e","e">>
PriceText == <<"$","4",",","5","0","0">>
WeeksText == <<"1","2"," ","w","e","e","k","s">>
UrlText == <<"w","v","u",".","e","d","u">>
\* a page on a social network, with a trusted-looking ending
SocialUrl ==
    <<"l","i","n","k","e","d","i","n",".","c","o","m","/","w","v","u",".","o","r","g">>

\* "Skip if URL has: blog, news, linkedin, facebook, medium"
Blocklist ==
    { <<"b","l","o","g">>, <<"n","e","w","s">>, <<"l","i","n","k","e","d","i","n">>,
      <<"f","a","c","e","b","o","o","k">>, <<"m","e","d","i","u","m">> }

\* first sighting of a program: provider known, cost and duration not
RawA ==
    [program_name |-> SolarTech, provider |-> WVU, location |-> WestVirginiaText,
     cost |-> Empty, description |-> Empty]
\* the same program again: cost, duration and url known, provider not
RawB ==
    [program_name |-> SolarTech, provider |-> Empty, location |-> WestVirginiaText,
     duration |-> WeeksText, cost |-> FreeText, url |-> SocialUrl]
\* the same name in another case, with the provider's own key style
RawC ==
    [ProgramName |-> SolarTechLower, Provider |-> KCTCS, Cost |-> PriceText]
\* a program for coal miners, with a null cost
RawD ==
    [program_name |-> CoalMinerSolar, provider |-> WVU, cost |-> NoneVal,
     description |-> Empty]
\* a record without a name
RawE ==
    [provider |-> KCTCS, cost |-> FreeText]

\* the programs the search provider may hold in the model
Catalog == {RawA, RawB, RawD}

\* what the deduplicator is given on its own
Candidates == Catalog \cup {RawC, RawE}

ProgramFields ==
    {"program_name", "provider", "location", "duration", "cost", "description", "url"}

\* the provider's key for a field
AltKey(k) ==
    CASE k = "program_name" -> "ProgramName"
      [] k = "provider" -> "Provider"
      [] k = "location" -> "City"
      [] k = "duration" -> "Duration"
      [] k = "cost" -> "Cost"
      [] k = "description" -> "Description"
      [] k = "url" -> "URL"

\* program.get(k, program.get(AltKey, ''))
FieldOf(program, k) == Get(program, k, Get(program, AltKey(k), Empty))

\* variant: a URL of a blocklisted site is not carried over
normalized_programScrubbed(program) ==
    [k \in ProgramFields |->
        IF k = "url" /\ \E kw \in Blocklist : Contains(Lower(FieldOf(program, k)), kw)
        THEN Empty ELSE FieldOf(program, k)]

\* "Normalize program structure"
normalized_program(program) == [k \in ProgramFields |-> FieldOf(program, k)]

\* the names of a program list, in order
NamesOf(programs) == [i \in 1..Len(programs) |-> programs[i]["program_name"]]

InSeq(x, s) == \E i \in 1..Len(s) : s[i] = x

\* variant: every named record is kept
RECURSIVE UniqueFromKeepAll(_, _)
UniqueFromKeepAll(all_programs, unique_programs) ==
    IF all_programs = <<>> THEN unique_programs
    ELSE LET program == Head(all_programs)
             program_name == FieldOf(program, "program_name")
         IN  IF Truthy(program_name)
             THEN UniqueFromKeepAll(Tail(all_programs),
                                    Append(unique_programs, normalized_program(program)))
             ELSE UniqueFromKeepAll(Tail(all_programs), unique_programs)

\* variant: a record is compared with the last kept record only
RECURSIVE UniqueFromAdjacent(_, _)
UniqueFromAdjacent(all_programs, unique_programs) ==
    IF all_programs = <<>> THEN unique_programs
    ELSE LET program == Head(all_programs)
             program_name == FieldOf(program, "program_name")
         IN  IF /\ Truthy(program_name)
                /\ (unique_programs = <<>>
                      \/ unique_programs[Len(unique_programs)].program_name # program_name)
             THEN UniqueFromAdjacent(Tail(all_programs),
                                     Append(unique_programs, normalized_program(program)))
             ELSE UniqueFromAdjacent(Tail(all_programs), unique_programs)

\* variant: a later record of a name fills the empty fields of the kept one
RECURSIVE UniqueFromMerging(_, _)
UniqueFromMerging(all_programs, unique_programs) ==
    IF all_programs = <<>> THEN unique_programs
    ELSE LET program == Head(all_programs)
             program_name == FieldOf(program, "program_name")
         IN  IF ~Truthy(program_name)
             THEN UniqueFromMerging(Tail(all_programs), unique_programs)
             ELSE IF ~InSeq(program_name, NamesOf(unique_programs))
             THEN UniqueFromMerging(Tail(all_programs),
                                    Append(unique_programs, normalized_program(program)))
             ELSE UniqueFromMerging(Tail(all_programs),
                     [k \in 1..Len(unique_programs) |->
                        IF unique_programs[k].program_name # program_name
                        THEN unique_programs[k]
                        ELSE [f \in ProgramFields |->
                                IF Truthy(unique_programs[k][f]) THEN unique_programs[k][f]
                                ELSE FieldOf(program, f)]])

\* variant: a later record of a name replaces the kept one
RECURSIVE UniqueFromLastWins(_, _)
UniqueFromLastWins(all_programs, unique_programs) ==
    IF all_programs = <<>> THEN unique_programs
    ELSE LET program == Head(all_programs)
             program_name == FieldOf(program, "program_name")
         IN  IF ~Truthy(program_name)
             THEN UniqueFromLastWins(Tail(all_programs), unique_programs)
             ELSE IF ~InSeq(program_name, NamesOf(unique_programs))
             THEN UniqueFromLastWins(Tail(all_programs),
                                     Append(unique_programs, normalized_program(program)))
             ELSE UniqueFromLastWins(Tail(all_programs),
                     [k \in 1..Len(unique_programs) |->
                        IF unique_programs[k].program_name # program_name
                        THEN unique_programs[k]
                        ELSE normalized_program(program)])

\* "Remove duplicates based on program name": the first record of each
\* non-empty name is kept, in first-seen order
RECURSIVE UniqueFrom(_, _)
UniqueFrom(all_programs, unique_programs) ==
    IF all_programs = <<>> THEN unique_programs
    ELSE LET program == Head(all_programs)
             program_name == FieldOf(program, "program_name")
         IN  IF Truthy(program_name) /\ ~InSeq(program_name, NamesOf(unique_programs))
             THEN UniqueFrom(Tail(all_programs),
                             Append(unique_programs, normalized_program(program)))
             ELSE UniqueFrom(Tail(all_programs), unique_programs)

Deduplicate(all_programs) == UniqueFrom(all_programs, <<>>)


(***************************************************************************)
(* Relevance scoring and ranking.                                          *)
(***************************************************************************)
\* f"{program_name} {program_desc}", both lower-cased, None read as ''
ProgramText(program) ==
    Lower(OrEmpty(Get(program, "program_name", NoneVal))) \o <<" ">>
        \o Lower(OrEmpty(Get(program, "description", NoneVal)))

HasCoalKeyword(program) ==
    \E keyword \in COAL_MINER_KEYWORDS : Contains(ProgramText(program), keyword)

HasRenewableKeyword(program) ==
    \E keyword \in RENEWABLE_ENERGY_KEYWORDS : Contains(ProgramText(program), keyword)

LocationMatches(program, user_data) ==
    /\ Truthy(user_data.state)
    /\ Contains(Lower(OrEmpty(Get(program, "location", NoneVal))),
                Replace(user_data.state, "_", " "))

BudgetMatches(program, user_data) ==
    LET cost == Lower(OrEmpty(Get(program, "cost", NoneVal)))
    IN  /\ user_data.budget_constraint = FreeWord
        /\ (Contains(cost, FreeWord) \/ Contains(cost, GrantWord)
              \/ Contains(cost, FundedWord))

\* the additive score before it is normalised
RawScore(program, user_data) ==
    (IF HasCoalKeyword(program) THEN 50 ELSE 0)
    + (IF HasRenewableKeyword(program) THEN 30 ELSE 0)
    + (IF LocationMatches(program, user_data) THEN 20 ELSE 0)
    + (IF BudgetMatches(program, user_data) THEN 10 ELSE 0)

Min(a, b) == IF a <= b THEN a ELSE b

\* min(score / 120 * 100, 100), kept in hundredths of a point (rounded down)
calculate_relevance_score(program, user_data) ==
    Min((RawScore(program, user_data) * 100 * 100) \div 120, 100 * 100)

\* the program as filter_and_rank leaves it: scored, flagged and explained
Ranked(program, user_data) ==
    LET flagged == IF HasCoalKeyword(program)
                   THEN ("is_coal_miner_specific" :> TRUE) @@ program
                   ELSE program
        reasons == (IF Get(flagged, "is_coal_miner_specific", FALSE)
                    THEN <<"Designed for coal miners">> ELSE <<>>)
                   \o (IF HasRenewableKeyword(program)
                       THEN <<"Renewable energy focused">> ELSE <<>>)
    IN  ("match_score" :> calculate_relevance_score(program, user_data))
        @@ ("relevance_reason" :>
               IF reasons # <<>> THEN reasons ELSE <<"General training program">>)
        @@ flagged

\* variant: an element goes in front of the elements of its own score
InsertByScoreUnstable(sorted, x) ==
    LET n == Cardinality({i \in 1..Len(sorted) : sorted[i].match_score > x.match_score})
    IN  SubSeq(sorted, 1, n) \o <<x>> \o SubSeq(sorted, n + 1, Len(sorted))

\* list.sort(key=match_score, reverse=True): stable, so an element goes behind
\* every element that scores at least as much
InsertByScore(sorted, x) ==
    LET n == Cardinality({i \in 1..Len(sorted) : sorted[i].match_score >= x.match_score})
    IN  SubSeq(sorted, 1, n) \o <<x>> \o SubSeq(sorted, n + 1, Len(sorted))

RECURSIVE SortByScoreFrom(_, _)
SortByScoreFrom(programs, sorted) ==
    IF programs = <<>> THEN sorted
    ELSE SortByScoreFrom(Tail(programs), InsertByScore(sorted, Head(programs)))

SortByScore(programs) == SortByScoreFrom(programs, <<>>)

IsCoal(program) == Get(program, "is_coal_miner_specific", FALSE)
IsGeneral(program) == ~IsCoal(program)

\* filter_and_rank_programs: (coal_miner_programs, general_renewable_programs)
filter_and_rank_programs(programs, user_data) ==
    LET ranked == [i \in 1..Len(programs) |-> Ranked(programs[i], user_data)]
    IN  [coal |-> SortByScore(SelectSeq(ranked, IsCoal)),
         general |-> SortByScore(SelectSeq(ranked, IsGeneral))]

\* list[:max_results] for max_results >= 0
Take(s, n) == SubSeq(s, 1, Min(n, Len(s)))


(***************************************************************************)
(* The cache: the rows of table training_programs, in insertion order.     *)
(* The columns no handler reads or writes (program_type, contact_email,    *)
(* contact_phone, financial_aid_available, job_placement_assistance,       *)
(* certification_provided) are left out.                                   *)
(***************************************************************************)
\* variant: the inserted row is not marked active
RowOfInactive(program, user_state) ==
    [program_name |-> Get(program, "program_name", Empty),
     provider |-> Get(program, "provider", Empty),
     state |-> user_state,
     location |-> Get(program, "location", Empty),
     duration |-> Get(program, "duration", Empty),
     cost |-> Get(program, "cost", Empty),
     description |-> Get(program, "description", Empty),
     url |-> Get(program, "url", Empty),
     is_coal_miner_specific |-> Get(program, "is_coal_miner_specific", FALSE),
     source |-> "careeronestop",
     is_active |-> FALSE]

\* program_data of save_programs_to_database
RowOf(program, user_state) ==
    [program_name |-> Get(program, "program_name", Empty),
     provider |-> Get(program, "provider", Empty),
     state |-> user_state,
     location |-> Get(program, "location", Empty),
     duration |-> Get(program, "duration", Empty),
     cost |-> Get(program, "cost", Empty),
     description |-> Get(program, "description", Empty),
     url |-> Get(program, "url", Empty),
     is_coal_miner_specific |-> Get(program, "is_coal_miner_specific", FALSE),
     source |-> "careeronestop",
     is_active |-> TRUE]

\* the dict get_programs_from_database builds from a row
ProgramOfRow(record) ==
    [program_name |-> record.program_name,
     provider |-> record.provider,
     location |-> record.location,
     duration |-> record.duration,
     cost |-> record.cost,
     description |-> record.description,
     url |-> record.url,
     is_coal_miner_specific |-> record.is_coal_miner_specific]

\* variant: the rows are selected by the region's display name, not its code
ActiveRowsByStateName(rows, user_state) ==
    SelectSeq(rows, LAMBDA record :
                 record.state = Replace(user_state, "_", " ") /\ record.is_active)

\* .eq('state', user_state).eq('is_active', True)
ActiveRows(rows, user_state) ==
    SelectSeq(rows, LAMBDA record : record.state = user_state /\ record.is_active)

\* .eq('program_name', name).eq('state', user_state)
ExistingRows(rows, name, user_state) ==
    SelectSeq(rows, LAMBDA record : record.program_name = name /\ record.state = user_state)

\* a curated row of the database setup, and a row that was taken out of use
CuratedRow ==
    [program_name |-> CoalMinerSolar, provider |-> WVU, state |-> WestVirginia,
     location |-> WestVirginiaText, duration |-> WeeksText, cost |-> FreeText,
     description |-> Empty, url |-> UrlText, is_coal_miner_specific |-> TRUE,
     source |-> "curated", is_active |-> TRUE]
RetiredRow ==
    [program_name |-> SolarTech, provider |-> WVU, state |-> Ohio,
     location |-> Empty, duration |-> Empty, cost |-> Empty,
     description |-> Empty, url |-> Empty, is_coal_miner_specific |-> FALSE,
     source |-> "curated", is_active |-> FALSE]

\* the table before the first request: empty, or set up with an active row for
\* one region and only a retired row for the other
InitialCaches == { <<>>, <<CuratedRow, RetiredRow>> }

(***************************************************************************)
(* Requests.                                                               *)
(***************************************************************************)
coal_miner_searches ==
    << "coal miner renewable energy training",
       "coal worker transition clean energy",
       "mining to solar wind career" >>

renewable_searches ==
    << "solar installer certification",
       "wind turbine technician training",
       "renewable energy technician",
       "solar panel installation",
       "clean energy jobs training" >>

\* variant: the broader round comes first
AllSearchesReordered == renewable_searches \o coal_miner_searches

\* variant: the broader round is left out
AllSearchesPrimaryOnly == coal_miner_searches

\* the queries of one live run, in the order they are issued
AllSearches == coal_miner_searches \o renewable_searches

SeqsUpTo(S, n) == UNION { [1..k -> S] : k \in 0..n }

\* TrainingRecommendationResponse, or the HTTPException's status alone
Response(status, coal, general, queries, source, raw, message) ==
    [status |-> status,
     coal_miner_specific_programs |-> coal,
     general_renewable_programs |-> general,
     total_programs |-> Len(coal) + Len(general),
     queries_used |-> queries,
     data_source |-> source,
     total_raw_results |-> raw,
     message |-> message]

ErrorResponse(code) == Response(code, <<>>, <<>>, <<>>, "none", 0, "error")

NoResponse == ErrorResponse(0)

NoRequest ==
    [status |-> 0, user_state |-> NoneVal, source |-> "none",
     names |-> <<>>, save |-> "none", empty_before |-> FALSE]

IdleRequest ==
    [pc |-> "idle", endpoint |-> "none", user_state |-> NoneVal,
     budget_constraint |-> NoneVal, max_results |-> 0,
     programs_list |-> <<>>, all_programs |-> <<>>, search_queries |-> <<>>,
     si |-> 0, calls |-> 0, inserts |-> 0, skips |-> 0, checked |-> FALSE,
     had_rows |-> FALSE, failed |-> FALSE, found |-> <<>>, primary |-> 0,
     empty_before |-> FALSE, read |-> "none", save |-> "none",
     pred |-> NoRequest, resp |-> NoResponse]

\* the values max_results takes in the model: a cut that bites and the default
MaxResultsValues == {1, 20}

\* the lookup of users.metadata: it raises, or yields the profile's state
UserLookups ==
    { [raises |-> TRUE, state |-> NoneVal] }
    \cup [raises : {FALSE}, state : StateCodes \cup {NoneVal}]

\* users.metadata.budget_constraint
BudgetConstraints == {NoneVal, FreeWord}

\* the program names a response carries
ReturnedNames(resp) ==
    { resp.coal_miner_specific_programs[i].program_name :
        i \in 1..Len(resp.coal_miner_specific_programs) }
    \cup { resp.general_renewable_programs[i].program_name :
        i \in 1..Len(resp.general_renewable_programs) }

\* what a finished request leaves for the request after it
Summary(r) ==
    [status |-> r.resp.status, user_state |-> r.user_state,
     source |-> r.resp.data_source,
     names |-> NamesOf(r.programs_list), save |-> r.save,
     empty_before |-> r.empty_before]

Finished(r) == r.pc \in {"idle", "done"}

\* the part of both handlers up to the region check: 401, 500, 400 or go on
Entry(r, endpoint, authenticated, body_state, lookup) ==
    LET fresh == [IdleRequest EXCEPT !.endpoint = endpoint, !.pred = last]
        user_state == IF Truthy(body_state) THEN body_state ELSE lookup.state
        known == [fresh EXCEPT !.user_state = user_state, !.checked = TRUE]
    IN  IF ~authenticated THEN [fresh EXCEPT !.pc = "done", !.resp = ErrorResponse(401)]
        ELSE IF lookup.raises
             THEN [fresh EXCEPT !.pc = "done", !.resp = ErrorResponse(500)]
        ELSE IF ~Truthy(user_state)
             THEN [fresh EXCEPT !.pc = "done", !.resp = ErrorResponse(400)]
        ELSE [known EXCEPT !.pc = "checked"]


\* user_data of the handlers
UserData(r) == [state |-> r.user_state, budget_constraint |-> r.budget_constraint]

\* variant: a run that found nothing is answered as an error
RecommendationOrNotFound(r) ==
    LET ranked == filter_and_rank_programs(r.programs_list, UserData(r))
        coal_specific == Take(ranked.coal, r.max_results)
        general_renewable == Take(ranked.general, r.max_results)
        data_source == IF r.search_queries[1] = "database_cached"
                       THEN "our curated database" ELSE "CareerOneStop"
    IN  IF r.programs_list = <<>> THEN ErrorResponse(404)
        ELSE Response(200, coal_specific, general_renewable, r.search_queries,
                      data_source,
                      IF r.all_programs # <<>> THEN Len(r.all_programs)
                      ELSE Len(r.programs_list),
                      IF coal_specific # <<>> THEN "found coal miner-specific programs"
                      ELSE "found general programs only")

\* the 200 response both handlers build from programs_list
Recommendation(r) ==
    LET ranked == filter_and_rank_programs(r.programs_list, UserData(r))
        coal_specific == Take(ranked.coal, r.max_results)
        general_renewable == Take(ranked.general, r.max_results)
        data_source == IF r.search_queries[1] = "database_cached"
                       THEN "our curated database" ELSE "CareerOneStop"
    IN  Response(200, coal_specific, general_renewable, r.search_queries, data_source,
                 IF r.all_programs # <<>> THEN Len(r.all_programs)
                 ELSE Len(r.programs_list),
                 IF coal_specific # <<>> THEN "found coal miner-specific programs"
                 ELSE IF general_renewable # <<>> THEN "found general programs only"
                 ELSE "no training programs currently available")

(***************************************************************************)
(* POST /coal-miner-training.  Every access to the database and every call *)
(* of the search API is one step; requests of different workers interleave *)
(* between steps.                                                          *)
(***************************************************************************)
\* authentication, the profile lookup and the region check
CoalMinerBegin(r) ==
    /\ Finished(req[r])
    /\ served < MaxRequests
    /\ \E authenticated \in BOOLEAN, body_state \in StateCodes \cup {NoneVal},
          lookup \in UserLookups :
          LET e == Entry(req[r], "coal", authenticated, body_state, lookup)
          IN  req' = [req EXCEPT ![r] =
                        IF e.pc = "checked" THEN [e EXCEPT !.pc = "read"] ELSE e]
    /\ served' = served + 1
    /\ last' = IF req'[r].pc = "done" THEN Summary(req'[r]) ELSE last
    /\ UNCHANGED <<settings, index, cache, dd, mc>>

\* STEP 1, get_programs_from_database: the active rows of the region, or
\* nothing when the query raises
CacheRead(r) ==
    /\ req[r].pc = "read"
    /\ \E raises \in BOOLEAN :
          LET rows == IF raises THEN <<>> ELSE ActiveRows(cache, req[r].user_state)
              programs == [i \in 1..Len(rows) |-> ProgramOfRow(rows[i])]
              seen == [req[r] EXCEPT
                         !.had_rows =
                             \E i \in 1..Len(cache) :
                                 cache[i].state = req[r].user_state /\ cache[i].is_active,
                         !.empty_before =
                             SelectSeq(cache, LAMBDA record :
                                          record.state = req[r].user_state) = <<>>,
                         !.read = IF raises THEN "failed" ELSE "ok"]
          IN  req' = [req EXCEPT ![r] =
                        IF programs # <<>>
                        THEN [seen EXCEPT !.programs_list = programs,
                                          !.search_queries = <<"database_cached">>,
                                          !.pc = "rank"]
                        ELSE [seen EXCEPT !.pc = "search"]]
    /\ UNCHANGED <<settings, index, cache, last, served, dd, mc>>

\* the history of the rounds is kept where the rounds are examined
Rounds == [stage |-> "rounds"]

\* what the model keeps of a query's answer besides the handler's variables:
\* failed, that some query got an error; found, the programs of the queries
\* that succeeded; primary, how many of them the coal-miner queries found
Noted(q, status, programs) ==
    LET found == IF status = "success" THEN q.found \o programs ELSE q.found
    IN  IF mc # Rounds THEN q
        ELSE [q EXCEPT !.failed = @ \/ status = "error",
                       !.found = found,
                       !.primary = IF Len(q.search_queries) <= Len(coal_miner_searches)
                                   THEN Len(found) ELSE @]

\* variant: a query that fails empties what was gathered before it
GatheredAborting(q, status, programs) ==
    [q EXCEPT !.all_programs = IF status = "success" THEN @ \o programs ELSE <<>>]

\* variant: the programs of a later query replace those gathered before it
GatheredReplacing(q, status, programs) ==
    [q EXCEPT !.all_programs = IF status = "success" /\ programs # <<>>
                               THEN programs ELSE @]

\* the request after a query answered: `if result["status"] == "success":
\* all_programs.extend(programs)`
Gathered(q, status, programs) ==
    [q EXCEPT !.all_programs = IF status = "success" THEN @ \o programs ELSE @]

\* careeronestop_search_training for the next query of STEP 2: no call without
\* the API key; otherwise an error (non-200 or transport), or up to
\* max_results programs
Search(r) ==
    /\ req[r].pc = "search"
    /\ Len(req[r].search_queries) < Len(AllSearches)
    /\ LET query == AllSearches[Len(req[r].search_queries) + 1]
           asked == [req[r] EXCEPT !.search_queries = Append(@, query)]
           next(q) == IF Len(q.search_queries) = Len(AllSearches)
                      THEN [q EXCEPT !.pc = "dedupe"] ELSE q
       IN  IF ~settings.careeronestop_api_key
           THEN req' = [req EXCEPT ![r] = next(asked)]
           ELSE \E status \in {"success", "error"} :
                \E programs \in SeqsUpTo(index, MaxRaw - Len(req[r].all_programs)) :
                   /\ status = "error" => programs = <<>>
                   /\ req' = [req EXCEPT ![r] =
                                next(Gathered(Noted([asked EXCEPT !.calls = @ + 1],
                                                    status, programs),
                                              status, programs))]
    /\ UNCHANGED <<settings, index, cache, last, served, dd, mc>>

\* "Remove duplicates based on program name", then STEP 3 if anything is left
Dedupe(r) ==
    /\ req[r].pc = "dedupe"
    /\ LET unique == Deduplicate(req[r].all_programs)
       IN  req' = [req EXCEPT ![r].programs_list = unique,
                              ![r].si = IF unique # <<>> THEN 1 ELSE 0,
                              ![r].pc = IF unique # <<>> THEN "save_select" ELSE "rank"]
    /\ UNCHANGED <<settings, index, cache, last, served, dd, mc>>

\* variant: the save returns after its first program
AfterSavedStops(q) == [q EXCEPT !.pc = "rank", !.save = "ok"]

\* the request after programs_list[si] was dealt with
AfterSaved(q) ==
    IF q.si = Len(q.programs_list)
    THEN [q EXCEPT !.pc = "rank", !.save = "ok"]
    ELSE [q EXCEPT !.pc = "save_select", !.si = @ + 1]

\* variant: a program whose key is cached overwrites the cached row
SaveSelectOverwriting(r) ==
    /\ req[r].pc = "save_select"
    /\ \E raises \in BOOLEAN :
          LET program == req[r].programs_list[req[r].si]
              existing == ExistingRows(cache, Get(program, "program_name", NoneVal),
                                       req[r].user_state)
          IN  /\ req' = [req EXCEPT ![r] =
                           IF raises THEN [@ EXCEPT !.pc = "rank", !.save = "failed"]
                           ELSE IF existing = <<>> THEN [@ EXCEPT !.pc = "save_insert"]
                           ELSE AfterSaved([@ EXCEPT !.skips = @ + 1])]
              /\ cache' = IF raises \/ existing = <<>> THEN cache
                          ELSE [j \in 1..Len(cache) |->
                                  IF /\ cache[j].program_name = program.program_name
                                     /\ cache[j].state = req[r].user_state
                                  THEN RowOf(program, req[r].user_state)
                                  ELSE cache[j]]
    /\ UNCHANGED <<settings, index, last, served, dd, mc>>

\* save_programs_to_database, "Check if program already exists": an exception
\* ends the whole save
SaveSelect(r) ==
    /\ req[r].pc = "save_select"
    /\ \E raises \in BOOLEAN :
          LET program == req[r].programs_list[req[r].si]
              existing == ExistingRows(cache, Get(program, "program_name", NoneVal),
                                       req[r].user_state)
          IN  req' = [req EXCEPT ![r] =
                        IF raises THEN [@ EXCEPT !.pc = "rank", !.save = "failed"]
                        ELSE IF existing = <<>> THEN [@ EXCEPT !.pc = "save_insert"]
                        ELSE AfterSaved([@ EXCEPT !.skips = @ + 1])]
    /\ UNCHANGED <<settings, index, cache, last, served, dd, mc>>

\* variant: an insert that raises is passed over and the save goes on
SaveInsertContinuing(r) ==
    /\ req[r].pc = "save_insert"
    /\ \E raises \in BOOLEAN :
          IF raises
          THEN /\ req' = [req EXCEPT ![r] = AfterSaved(@)]
               /\ cache' = cache
          ELSE /\ cache' = Append(cache,
                               RowOf(req[r].programs_list[req[r].si], req[r].user_state))
               /\ req' = [req EXCEPT ![r] = AfterSaved([@ EXCEPT !.inserts = @ + 1])]
    /\ UNCHANGED <<settings, index, last, served, dd, mc>>

\* save_programs_to_database, "Insert new program"
SaveInsert(r) ==
    /\ req[r].pc = "save_insert"
    /\ \E raises \in BOOLEAN :
          IF raises
          THEN /\ req' = [req EXCEPT ![r].pc = "rank", ![r].save = "failed"]
               /\ cache' = cache
          ELSE /\ cache' = Append(cache,
                               RowOf(req[r].programs_list[req[r].si], req[r].user_state))
               /\ req' = [req EXCEPT ![r] = AfterSaved([@ EXCEPT !.inserts = @ + 1])]
    /\ UNCHANGED <<settings, index, last, served, dd, mc>>

\* filter, rank, cut to max_results and answer.  The profile's
\* budget_constraint and the request's max_results are not used before this
\* step, where the model draws them.
Respond(r) ==
    /\ req[r].pc = "rank"
    /\ \E budget_constraint \in BudgetConstraints, max_results \in MaxResultsValues :
          LET q == [req[r] EXCEPT !.budget_constraint = budget_constraint,
                                  !.max_results = max_results]
          IN  req' = [req EXCEPT ![r] =
                        [q EXCEPT !.resp = Recommendation(q), !.pc = "done"]]
    /\ last' = Summary(req'[r])
    /\ UNCHANGED <<settings, index, cache, served, dd, mc>>


(***************************************************************************)
(* POST /search-live-programs.  The handler imports TrainingSearchAgent    *)
(* from app.services.agents.training_search_agent, whose __init__ defines  *)
(* no such name (and no module of the repository does): the import raises  *)
(* ImportError inside the try block, which the handler's `except           *)
(* Exception` turns into a 500.  The search, the write-through and the     *)
(* ranking behind the import are never reached.                            *)
(***************************************************************************)
\* variant: the handler does not test the OpenAI key
search_live_training_programsUnchecked(r) ==
    /\ Finished(req[r])
    /\ served < MaxRequests
    /\ \E authenticated \in BOOLEAN, body_state \in StateCodes \cup {NoneVal},
          lookup \in UserLookups :
          LET e == Entry(req[r], "live", authenticated, body_state, lookup)
          IN  req' = [req EXCEPT ![r] =
                        IF e.pc # "checked" THEN e
                        ELSE [e EXCEPT !.pc = "done", !.resp = ErrorResponse(500)]]
    /\ served' = served + 1
    /\ last' = Summary(req'[r])
    /\ UNCHANGED <<settings, index, cache, dd, mc>>

\* the handler: 401, 500 or 400 as above, 503 without the OpenAI key, and the
\* failing import otherwise
search_live_training_programs(r) ==
    /\ Finished(req[r])
    /\ served < MaxRequests
    /\ \E authenticated \in BOOLEAN, body_state \in StateCodes \cup {NoneVal},
          lookup \in UserLookups :
          LET e == Entry(req[r], "live", authenticated, body_state, lookup)
          IN  req' = [req EXCEPT ![r] =
                        IF e.pc # "checked" THEN e
                        ELSE IF ~settings.openai_api_key
                             THEN [e EXCEPT !.pc = "done", !.resp = ErrorResponse(503)]
                        ELSE [e EXCEPT !.pc = "done", !.resp = ErrorResponse(500)]]
    /\ served' = served + 1
    /\ last' = Summary(req'[r])
    /\ UNCHANGED <<settings, index, cache, dd, mc>>

(***************************************************************************)
(* The deduplicator on its own.                                            *)
(***************************************************************************)
NoDedup == [stage |-> "off", input |-> <<>>, output |-> <<>>, again |-> <<>>,
            doubled |-> <<>>]

\* the deduplicator on a candidate list
DedupOnce ==
    /\ dd.stage = "input"
    /\ dd' = [dd EXCEPT !.output = Deduplicate(dd.input), !.stage = "once"]
    /\ UNCHANGED <<settings, index, cache, req, last, served, mc>>

\* the deduplicator on its own output
DedupAgain ==
    /\ dd.stage = "once"
    /\ dd' = [dd EXCEPT !.again = Deduplicate(dd.output), !.stage = "again"]
    /\ UNCHANGED <<settings, index, cache, req, last, served, mc>>

\* the deduplicator on the list followed by itself
DedupDoubled ==
    /\ dd.stage = "again"
    /\ dd' = [dd EXCEPT !.doubled = Deduplicate(dd.input \o dd.input), !.stage = "doubled"]
    /\ UNCHANGED <<settings, index, cache, req, last, served, mc>>

(***************************************************************************)
(* Constraint matching and enrichment: match_constraints and               *)
(* add_geocoding_and_constraints of the training search agent.             *)
(***************************************************************************)
\* str.strip() for the blanks the model's texts hold
RECURSIVE StripLeft(_)
StripLeft(s) == IF s # <<>> /\ Head(s) = " " THEN StripLeft(Tail(s)) ELSE s

RECURSIVE StripRight(_)
StripRight(s) ==
    IF s # <<>> /\ s[Len(s)] = " " THEN StripRight(SubSeq(s, 1, Len(s) - 1)) ELSE s

Strip(s) == StripLeft(StripRight(s))

\* (program.get(key) or '').strip()
Stripped(program, key) == Strip(OrEmpty(Get(program, key, NoneVal)))

\* position of the first c in s, or 0
FirstIndex(s, c) ==
    IF \E i \in 1..Len(s) : s[i] = c
    THEN CHOOSE i \in 1..Len(s) : s[i] = c /\ \A j \in 1..(i - 1) : s[j] # c
    ELSE 0

\* s.split('$')[1] for an s that holds a '$': the text between the first '$'
\* and the next one
AfterDollar(s) ==
    LET rest == SubSeq(s, FirstIndex(s, "$") + 1, Len(s))
        stop == FirstIndex(rest, "$")
    IN  IF stop = 0 THEN rest ELSE SubSeq(rest, 1, stop - 1)

\* s.split(): the first blank-separated word, <<>> when there is none (where
\* Python's [0] raises IndexError)
FirstToken(s) ==
    LET t == StripLeft(s)
        stop == FirstIndex(t, " ")
    IN  IF stop = 0 THEN t ELSE SubSeq(t, 1, stop - 1)

Remove(s, c) == SelectSeq(s, LAMBDA x : x # c)

DigitChars == <<"0","1","2","3","4","5","6","7","8","9">>

IsDigit(c) == \E i \in 1..Len(DigitChars) : DigitChars[i] = c

DigitValue(c) == (CHOOSE i \in 1..Len(DigitChars) : DigitChars[i] = c) - 1

\* int() of a non-empty string of digits
RECURSIVE IntOf(_)
IntOf(digits) ==
    IF digits = <<>> THEN 0
    ELSE IntOf(SubSeq(digits, 1, Len(digits) - 1)) * 10 + DigitValue(digits[Len(digits)])

\* the try block of the '1000' tier: cost_str, cost_num, or the exception the
\* bare except catches (no word after the '$', or no digit in it)
CostNumber(program_cost_lower) ==
    LET word == FirstToken(AfterDollar(program_cost_lower))
        cost_str == Remove(Remove(word, ","), "+")
        digits == SelectSeq(cost_str, IsDigit)
    IN  IF word = <<>> \/ digits = <<>> THEN [raised |-> TRUE, cost_num |-> 0]
        ELSE [raised |-> FALSE, cost_num |-> IntOf(digits)]

\* values of the user's preferences
Preference ==
    [thousand |-> <<"1","0","0","0">>,
     five_thousand |-> <<"5","0","0","0">>,
     remote |-> <<"r","e","m","o","t","e">>,
     can_travel |-> <<"c","a","n","_","t","r","a","v","e","l">>,
     evenings_weekends |-> <<"e","v","e","n","i","n","g","s","_","w","e","e","k","e","n","d","s">>,
     full_time |-> <<"f","u","l","l","_","t","i","m","e">>,
     flexible |-> <<"f","l","e","x","i","b","l","e">>]

\* the words match_constraints looks for
Keyword ==
    [dollar_zero |-> <<"$","0">>,
     no_cost |-> <<"n","o"," ","c","o","s","t">>,
     contact |-> <<"c","o","n","t","a","c","t">>,
     pricing |-> <<"p","r","i","c","i","n","g">>,
     online |-> <<"o","n","l","i","n","e">>,
     in_person |-> <<"i","n","-","p","e","r","s","o","n">>,
     campus |-> <<"c","a","m","p","u","s">>,
     on_site |-> <<"o","n","-","s","i","t","e">>,
     hybrid |-> <<"h","y","b","r","i","d">>,
     part |-> <<"p","a","r","t">>,
     evening |-> <<"e","v","e","n","i","n","g">>,
     weekend |-> <<"w","e","e","k","e","n","d">>,
     full_time_hyphen |-> <<"f","u","l","l","-","t","i","m","e">>,
     full |-> <<"f","u","l","l">>]

AnyIn(text, keywords) == \E keyword \in keywords : Contains(text, keyword)

\* one axis of the verdict
Axis(verdict, mismatch_reasons, unknown_info) ==
    [verdict |-> verdict, mismatch_reasons |-> mismatch_reasons,
     unknown_info |-> unknown_info]

\* variant: a budget preference with no cost text counts as a mismatch
meets_budgetStrict(program, user_constraints) ==
    LET budget_constraint == Get(user_constraints, "budget_constraint", Empty)
    IN  IF Truthy(budget_constraint)
        THEN Axis("no", <<"No cost information available">>, <<>>)
        ELSE Axis("unknown", <<>>, <<>>)

\* "Budget matching"
meets_budget(program, user_constraints) ==
    LET budget_constraint == Get(user_constraints, "budget_constraint", Empty)
        program_cost == Stripped(program, "cost")
        program_cost_lower == Lower(program_cost)
        cost == CostNumber(program_cost_lower)
    IN  IF Truthy(budget_constraint) /\ program_cost # Empty
        THEN IF budget_constraint = FreeWord
             THEN IF AnyIn(program_cost_lower,
                           {FreeWord, GrantWord, FundedWord, Keyword.dollar_zero, Keyword.no_cost})
                  THEN Axis("yes", <<>>, <<>>)
                  ELSE IF \/ Contains(program_cost_lower, Keyword.contact)
                          \/ Contains(program_cost_lower, Keyword.pricing)
                  THEN Axis("unknown", <<>>,
                            <<"Cost not specified - contact program for details">>)
                  ELSE Axis("no", <<"Cost is {program_cost} (user needs free program)">>,
                            <<>>)
             ELSE IF budget_constraint = Preference.thousand
             THEN IF AnyIn(program_cost_lower,
                           {FreeWord, GrantWord, FundedWord, Keyword.dollar_zero})
                  THEN Axis("yes", <<>>, <<>>)
                  ELSE IF Contains(program_cost_lower, <<"$">>)
                  THEN IF cost.raised
                       THEN Axis("unknown", <<>>, <<"Cost format unclear - please verify">>)
                       ELSE IF cost.cost_num <= 1000
                       THEN Axis("yes", <<>>, <<>>)
                       ELSE Axis("no", <<"Cost ${cost_num} exceeds budget of $1,000">>,
                                 <<>>)
                  ELSE Axis("unknown", <<>>, <<"Cost not specified - contact program">>)
             ELSE Axis("unknown", <<>>, <<>>)
        ELSE IF Truthy(budget_constraint)
        THEN Axis("unknown", <<>>, <<"No cost information available">>)
        ELSE Axis("unknown", <<>>, <<>>)

\* (program.get('schedule_type') or '').strip().lower()
ScheduleType(program) == Lower(Stripped(program, "schedule_type"))

\* "Travel/location matching"
meets_travel(program, user_constraints) ==
    LET travel_constraint == Get(user_constraints, "travel_constraint", Empty)
        schedule_type == ScheduleType(program)
    IN  IF Truthy(travel_constraint) /\ schedule_type # Empty
        THEN IF travel_constraint = Preference.remote
             THEN IF AnyIn(schedule_type, {Keyword.online, Preference.remote})
                  THEN Axis("yes", <<>>, <<>>)
                  ELSE IF AnyIn(schedule_type, {Keyword.in_person, Keyword.campus, Keyword.on_site})
                  THEN Axis("no", <<"In-person program (user needs remote/online)">>,
                            <<>>)
                  ELSE Axis("unknown", <<>>, <<"Delivery format not specified">>)
             ELSE IF AnyIn(schedule_type, {Keyword.online, Keyword.hybrid, Preference.flexible})
                  THEN Axis("yes", <<>>, <<>>)
                  ELSE Axis("unknown", <<>>, <<"Location details not clear">>)
        ELSE IF Truthy(travel_constraint)
        THEN Axis("unknown", <<>>, <<"No location/delivery format information">>)
        ELSE Axis("unknown", <<>>, <<>>)

\* "Schedule matching"
meets_schedule(program, user_constraints) ==
    LET scheduling == Get(user_constraints, "scheduling", Empty)
        schedule_type == ScheduleType(program)
    IN  IF Truthy(scheduling) /\ schedule_type # Empty
        THEN IF scheduling = Preference.evenings_weekends
             THEN IF AnyIn(schedule_type, {Keyword.part, Keyword.evening, Keyword.weekend, Preference.flexible})
                  THEN Axis("yes", <<>>, <<>>)
                  ELSE IF AnyIn(schedule_type, {Preference.full_time, Keyword.full_time_hyphen})
                  THEN Axis("no", <<"Full-time schedule (user needs evenings/weekends)">>,
                            <<>>)
                  ELSE Axis("unknown", <<>>, <<"Schedule details not specified">>)
             ELSE IF scheduling = Preference.full_time
             THEN IF Contains(schedule_type, Keyword.full)
                  THEN Axis("yes", <<>>, <<>>)
                  ELSE Axis("unknown", <<>>, <<"Schedule format unclear">>)
             ELSE Axis("yes", <<>>, <<>>)
        ELSE IF Truthy(scheduling)
        THEN Axis("unknown", <<>>, <<"No schedule information available">>)
        ELSE Axis("unknown", <<>>, <<>>)

\* variant: one matching axis is enough
overall_matchAny(budget, travel, schedule) ==
    budget = "yes" \/ travel = "yes" \/ schedule = "yes"

\* "Overall match: True only if ALL are 'yes'"
overall_match(budget, travel, schedule) ==
    budget = "yes" /\ travel = "yes" /\ schedule = "yes"

\* the ConstraintMatch that match_constraints returns
match_constraints(program, user_constraints) ==
    LET budget == meets_budget(program, user_constraints)
        travel == meets_travel(program, user_constraints)
        schedule == meets_schedule(program, user_constraints)
    IN  [meets_budget |-> budget.verdict,
         meets_travel |-> travel.verdict,
         meets_schedule |-> schedule.verdict,
         overall_match |-> overall_match(budget.verdict, travel.verdict,
                                         schedule.verdict),
         mismatch_reasons |-> budget.mismatch_reasons \o travel.mismatch_reasons
                                \o schedule.mismatch_reasons,
         unknown_info |-> budget.unknown_info \o travel.unknown_info
                            \o schedule.unknown_info]

\* cost texts of extracted programs
CostText ==
    [free_for_displaced |-> <<"F","r","e","e"," ","f","o","r"," ","d","i","s","p","l","a","c","e","d"," ","w","o","r","k","e","r","s">>,
     contact_for_pricing |-> <<"c","o","n","t","a","c","t"," ","f","o","r"," ","p","r","i","c","i","n","g">>,
     varies |-> <<"v","a","r","i","e","s">>,
     half_dollar |-> <<"$","0",".","5","0">>,
     five_hundred |-> <<"$","5","0","0">>,
     dollar_tbd |-> <<"$","T","B","D">>,
     grant_funded |-> <<"G","r","a","n","t"," ","f","u","n","d","e","d">>,
     per_term |-> <<"1",",","2","0","0"," ","p","e","r"," ","t","e","r","m">>,
     blank |-> <<" "," ">>]

\* schedule_type texts of extracted programs
ScheduleText ==
    [in_person |-> <<"I","n","-","p","e","r","s","o","n">>,
     part_time |-> <<"p","a","r","t","_","t","i","m","e">>,
     self_paced |-> <<"s","e","l","f","-","p","a","c","e","d">>]

\* a key the dict does not have
Missing == <<"<missing>">>

WithKey(program, key, value) ==
    IF value = Missing THEN program ELSE (key :> value) @@ program

CostTexts ==
    {Missing, NoneVal, Empty, CostText.blank, CostText.free_for_displaced, PriceText, CostText.contact_for_pricing,
     CostText.varies, CostText.half_dollar, CostText.five_hundred, CostText.dollar_tbd, CostText.grant_funded, Keyword.no_cost, CostText.per_term}

ScheduleTypes ==
    {Missing, NoneVal, Empty, Keyword.online, ScheduleText.in_person, ScheduleText.part_time, Preference.full_time, Keyword.hybrid,
     ScheduleText.self_paced}

\* the programs match_constraints is given on its own
MatchPrograms ==
    { WithKey(WithKey([program_name |-> SolarTech], "cost", cost),
              "schedule_type", schedule_type) :
        cost \in CostTexts, schedule_type \in ScheduleTypes }

\* the user's preferences: unset, or one of the values of the profile form
UserConstraints ==
    [budget_constraint : {Empty, NoneVal, FreeWord, Preference.thousand, Preference.five_thousand},
     travel_constraint : {Empty, Preference.remote, Preference.can_travel},
     scheduling : {Empty, Preference.evenings_weekends, Preference.full_time, Preference.flexible}]

NoMatch == [stage |-> "off"]

\* the verdict match_constraints starts from
Unmatched ==
    [meets_budget |-> "unknown", meets_travel |-> "unknown",
     meets_schedule |-> "unknown", overall_match |-> FALSE,
     mismatch_reasons |-> <<>>, unknown_info |-> <<>>]

\* match_constraints on one program
Match ==
    /\ mc.stage = "program"
    /\ mc' = [mc EXCEPT !.constraint_match =
                            match_constraints(mc.program, mc.user_constraints),
                        !.stage = "matched"]
    /\ UNCHANGED <<settings, index, cache, req, last, served, dd>>

\* the address add_geocoding_and_constraints looks up: provider with state or
\* location, else the location, else None
address_to_geocode(program) ==
    LET provider == Stripped(program, "provider")
        state == Stripped(program, "state")
        location == Stripped(program, "location")
    IN  IF provider # Empty
        THEN IF state # Empty THEN provider \o <<",", " ">> \o state
             ELSE IF location # Empty THEN provider \o <<",", " ">> \o location
             ELSE provider
        ELSE IF location # Empty THEN location
        ELSE NoneVal

GeoError == [status |-> "error", latitude |-> NoneVal, longitude |-> NoneVal]

\* geocode_address: refused without the API key or an address; otherwise the
\* lookup finds the place, finds nothing, or fails (HTTP error, timeout), and
\* every failure comes back as a status, not as an exception
geocode_address(address, google_maps_api_key, outcome) ==
    IF ~google_maps_api_key THEN GeoError
    ELSE IF ~Truthy(address) THEN GeoError
    ELSE IF outcome = "success"
         THEN [status |-> "success", latitude |-> <<"lat">> \o address,
               longitude |-> <<"lng">> \o address]
    ELSE GeoError

\* "Try geocoding": the program with coordinates when the lookup succeeded
Geocoded(program, google_maps_api_key, geo) ==
    LET address == address_to_geocode(program)
        geo_result == geocode_address(address, google_maps_api_key,
                                      IF address \in DOMAIN geo THEN geo[address]
                                      ELSE "error")
    IN  IF Truthy(address) /\ geo_result.status = "success"
        THEN ("latitude" :> geo_result.latitude)
             @@ ("longitude" :> geo_result.longitude) @@ program
        ELSE program

\* variant: both bonuses are added and the sum is not capped
scoreUncapped(program, constraint_match) ==
    50 + (IF Get(program, "is_coal_miner_specific", FALSE) = TRUE THEN 30 ELSE 0)
       + (IF constraint_match.overall_match THEN 20 ELSE 0)
       + (IF constraint_match.meets_budget # "" THEN 10 ELSE 0)

\* "Calculate match score": base 50, +30 for a coal-miner program, +20 for an
\* overall match, otherwise +10 when meets_budget is a non-empty string (it
\* always is), capped at 100
score(program, constraint_match) ==
    Min(50 + (IF Get(program, "is_coal_miner_specific", FALSE) = TRUE THEN 30 ELSE 0)
           + (IF constraint_match.overall_match THEN 20
              ELSE IF constraint_match.meets_budget # "" THEN 10 ELSE 0),
        100)

\* the body of the loop: geocode, match, score
Enhanced(program, user_constraints, google_maps_api_key, geo) ==
    LET located == Geocoded(program, google_maps_api_key, geo)
        constraint_match == match_constraints(located, user_constraints)
    IN  ("constraint_match" :> constraint_match)
        @@ ("match_score" :> score(located, constraint_match)) @@ located

\* variant: a program whose lookup failed is left out
add_geocoding_and_constraintsSkipping(programs, user_constraints, google_maps_api_key, geo) ==
    SortByScore(SelectSeq(
        [i \in 1..Len(programs) |->
            Enhanced(programs[i], user_constraints, google_maps_api_key, geo)],
        LAMBDA program : "latitude" \in DOMAIN program))

\* add_geocoding_and_constraints: every program enhanced, then sorted by
\* match_score, highest first
add_geocoding_and_constraints(programs, user_constraints, google_maps_api_key, geo) ==
    SortByScore([i \in 1..Len(programs) |->
                    Enhanced(programs[i], user_constraints, google_maps_api_key, geo)])

\* programs as the extraction hands them over
WV == <<"W","V">>
WindTech == <<"W","i","n","d"," ","T","e","c","h">>

\* for coal miners, free, online: provider and state known
ProgramP ==
    [program_name |-> SolarTech, provider |-> WVU, state |-> WV,
     cost |-> CostText.free_for_displaced, schedule_type |-> Keyword.online,
     is_coal_miner_specific |-> TRUE]
\* priced, in person: provider and location known
ProgramQ ==
    [program_name |-> CoalMinerSolar, provider |-> KCTCS,
     location |-> WestVirginiaText, cost |-> PriceText, schedule_type |-> ScheduleText.in_person]
\* a location and nothing else
ProgramR ==
    [program_name |-> SolarTechLower, provider |-> NoneVal,
     location |-> WestVirginiaText]
\* nothing to look up
ProgramS ==
    [program_name |-> WindTech, is_coal_miner_specific |-> TRUE]

EnrichPrograms == {ProgramP, ProgramQ, ProgramR, ProgramS}

Addresses == { address_to_geocode(program) : program \in EnrichPrograms } \ {NoneVal}

\* nothing set, or a free, remote, flexible programme wanted
EnrichConstraints ==
    { [budget_constraint |-> Empty, travel_constraint |-> Empty, scheduling |-> Empty],
      [budget_constraint |-> FreeWord, travel_constraint |-> Preference.remote,
       scheduling |-> Preference.flexible] }

\* add_geocoding_and_constraints on a list of programs
Enrich ==
    /\ mc.stage = "programs"
    /\ mc' = [mc EXCEPT !.enhanced =
                            add_geocoding_and_constraints(
                                mc.programs, mc.user_constraints,
                                mc.google_maps_api_key, mc.geo),
                        !.stage = "enhanced"]
    /\ UNCHANGED <<settings, index, cache, req, last, served, dd>>

\* filter_and_rank_programs on the list as it was handed over, for a user in
\* West Virginia
Rank ==
    /\ mc.stage = "enhanced"
    /\ mc' = [mc EXCEPT !.ranked =
                            filter_and_rank_programs(
                                mc.programs,
                                [state |-> WestVirginia,
                                 budget_constraint |->
                                     mc.user_constraints.budget_constraint]),
                        !.stage = "ranked"]
    /\ UNCHANGED <<settings, index, cache, req, last, served, dd>>

(***************************************************************************)
(* search_training_programs: what it makes of the pipeline's final text.   *)
(* A text is a sequence of tokens: the fence that opens a json block (three *)
(* backticks and the word json), the bare fence, the braces, the members   *)
(* an object of the pipeline can hold (the status "success", one program)  *)
(* and prose.                                                              *)
(***************************************************************************)
MaxText == 5

Token ==
    [json_fence |-> "fence json", fence |-> "fence", open |-> "{", close |-> "}",
     status_success |-> "'status': 'success'", program |-> "program",
     prose |-> "prose"]

\* json.loads: the text is one object whose members are well formed, or the
\* call raises JSONDecodeError
json_loads(text) ==
    IF /\ Len(text) >= 2
       /\ text[1] = Token.open /\ text[Len(text)] = Token.close
       /\ \A i \in 2..(Len(text) - 1) : text[i] \in {Token.status_success, Token.program}
    THEN [raises |-> FALSE,
          status |-> IF \E i \in 1..Len(text) : text[i] = Token.status_success
                     THEN "success" ELSE "unknown",
          programs |-> Len(SelectSeq(text, LAMBDA t : t = Token.program))]
    ELSE [raises |-> TRUE, status |-> "unknown", programs |-> 0]

\* final_text.split("```json")[1].split("```")[0]: what follows the first
\* json fence, up to the next fence of either kind
Fenced(final_text) ==
    LET start == FirstIndex(final_text, Token.json_fence)
        rest == SubSeq(final_text, start + 1, Len(final_text))
        stops == { i \in 1..Len(rest) : rest[i] \in {Token.json_fence, Token.fence} }
    IN  IF stops = {} THEN rest
        ELSE SubSeq(rest, 1, (CHOOSE i \in stops : \A j \in stops : i <= j) - 1)

\* final_text[final_text.index("{") : final_text.rindex("}") + 1], for a text
\* that holds both braces
Braced(final_text) ==
    LET closes == { i \in 1..Len(final_text) : final_text[i] = Token.close }
    IN  SubSeq(final_text, FirstIndex(final_text, Token.open),
               CHOOSE i \in closes : \A j \in closes : j <= i)

\* variant: a text that cannot be parsed counts as a successful empty result
parse_final_resultLenient(final_text) ==
    LET whole == json_loads(final_text)
    IN  IF ~whole.raises THEN whole
        ELSE [raises |-> FALSE, status |-> "success", programs |-> 0]

\* "Parse the final result": the whole text, else the json block, else the
\* outermost braces (rindex raises ValueError when no brace closes), else the
\* JSONDecodeError is raised again
parse_final_result(final_text) ==
    LET whole == json_loads(final_text)
    IN  IF ~whole.raises THEN whole
        ELSE IF InSeq(Token.json_fence, final_text) THEN json_loads(Fenced(final_text))
        ELSE IF InSeq(Token.open, final_text) /\ InSeq(Token.close, final_text)
             THEN json_loads(Braced(final_text))
        ELSE whole

\* what search_training_programs returns
SearchResult(success, total_programs, message) ==
    [success |-> success, total_programs |-> total_programs, message |-> message]

\* search_training_programs from the end of the pipeline's event stream on
search_training_programs ==
    /\ mc.stage = "streamed"
    /\ LET final_text == IF Truthy(mc.final_text) THEN mc.final_text
                         ELSE IF mc.all_responses # <<>>
                              THEN mc.all_responses[Len(mc.all_responses)]
                         ELSE NoneVal
           result == parse_final_result(final_text)
       IN  mc' = [mc EXCEPT
                     !.stage = "returned",
                     !.parsed = final_text,
                     !.result =
                         IF final_text = NoneVal \/ result.raises
                         THEN SearchResult(FALSE, 0, "Search error")
                         ELSE IF result.status # "success"
                              THEN SearchResult(FALSE, 0, "No programs found")
                         ELSE SearchResult(TRUE, result.programs, "Found programs")]
    /\ UNCHANGED <<settings, index, cache, req, last, served, dd>>

(***************************************************************************)
(* POST /ask and GET /status/{job_id}: the in-memory job store.  ask_agent  *)
(* creates the job and starts _run_job as a task on the event loop; the     *)
(* task and the handlers interleave where the task awaits, that is between  *)
(* two events of the agent's stream.                                        *)
(***************************************************************************)
MaxJobs == 2
MaxEvents == 2

\* what _run_job keeps between two events of job_id
Task(job_id) == mc.task[job_id]

\* ask_agent: a job under a fresh uuid, running, with nothing in it
ask_agent ==
    /\ mc.stage = "jobs"
    /\ \E job_id \in (1..MaxJobs) \ DOMAIN mc.JOBS :
          mc' = [mc EXCEPT
                    !.JOBS = (job_id :> [status |-> "running", steps |-> <<>>,
                                         result |-> NoneVal, error |-> NoneVal])
                             @@ @,
                    !.task = (job_id :> [pc |-> "stream", final_text |-> NoneVal,
                                         events |-> 0]) @@ @]
    /\ UNCHANGED <<settings, index, cache, req, last, served, dd>>

\* `async for event in events`: a step is kept for an event with a signal, and
\* the text of a final response, which may be None, becomes final_text
run_job_event(job_id) ==
    /\ mc.stage = "jobs" /\ job_id \in DOMAIN mc.JOBS
    /\ Task(job_id).pc = "stream"
    /\ Task(job_id).events < MaxEvents
    /\ \E has_signal \in BOOLEAN, final_response \in BOOLEAN,
          text \in {NoneVal, Empty, <<"answer">>} :
          /\ final_response => has_signal
          /\ ~final_response => text = NoneVal
          /\ mc' = [mc EXCEPT
                       !.JOBS[job_id].steps = IF has_signal THEN Append(@, "event") ELSE @,
                       !.task[job_id].events = @ + 1,
                       !.task[job_id].final_text = IF final_response THEN text ELSE @]
    /\ UNCHANGED <<settings, index, cache, req, last, served, dd>>

\* variant: the end of the stream marks the job again when it is marked already
run_job_finishAgain(job_id) ==
    /\ mc.stage = "jobs" /\ job_id \in DOMAIN mc.JOBS
    /\ Task(job_id).pc \in {"stream", "done"}
    /\ mc' = [mc EXCEPT
                 !.task[job_id].pc = "done",
                 !.JOBS[job_id] =
                     IF Task(job_id).final_text = NoneVal \/ Task(job_id).pc = "done"
                     THEN [@ EXCEPT !.status = "error",
                                    !.error = <<"No final response from agent.">>,
                                    !.steps = Append(@, "RunError")]
                     ELSE [@ EXCEPT !.status = "completed",
                                    !.result = <<"answer">> \o Task(job_id).final_text,
                                    !.steps = Append(@, "RunCompleted")]]
    /\ UNCHANGED <<settings, index, cache, req, last, served, dd>>

\* "Mark completion (use the last final response seen)", once the stream ended
run_job_finish(job_id) ==
    /\ mc.stage = "jobs" /\ job_id \in DOMAIN mc.JOBS
    /\ Task(job_id).pc = "stream"
    /\ mc' = [mc EXCEPT
                 !.task[job_id].pc = "done",
                 !.JOBS[job_id] =
                     IF Task(job_id).final_text = NoneVal
                     THEN [@ EXCEPT !.status = "error",
                                    !.error = <<"No final response from agent.">>,
                                    !.steps = Append(@, "RunError")]
                     ELSE [@ EXCEPT !.status = "completed",
                                    !.result = <<"answer">> \o Task(job_id).final_text,
                                    !.steps = Append(@, "RunCompleted")]]
    /\ UNCHANGED <<settings, index, cache, req, last, served, dd>>

\* `except Exception as e`: the runner or an event raised; str(e) may be empty.
\* Texts are sequences here, so that None and a text can be told apart.
run_job_except(job_id) ==
    /\ mc.stage = "jobs" /\ job_id \in DOMAIN mc.JOBS
    /\ Task(job_id).pc = "stream"
    /\ \E e \in {Empty, <<"runner failed">>} :
          mc' = [mc EXCEPT
                    !.task[job_id].pc = "done",
                    !.JOBS[job_id] = [@ EXCEPT !.status = "error",
                                               !.error = e,
                                               !.steps = Append(@, "RunException")]]
    /\ UNCHANGED <<settings, index, cache, req, last, served, dd>>

\* get_status: 404 for an unknown job, else the job as it stands
get_status(job_id) ==
    /\ mc.stage = "jobs"
    /\ mc' = [mc EXCEPT
                 !.response =
                     IF job_id \notin DOMAIN mc.JOBS
                     THEN [status_code |-> 404, job_id |-> job_id,
                           status |-> "none", steps |-> <<>>,
                           result |-> NoneVal, error |-> NoneVal]
                     ELSE [status_code |-> 200, job_id |-> job_id]
                          @@ mc.JOBS[job_id]]
    /\ UNCHANGED <<settings, index, cache, req, last, served, dd>>

(***************************************************************************)
(* Specifications.                                                         *)
(***************************************************************************)
Settings == [careeronestop_api_key : BOOLEAN, openai_api_key : BOOLEAN]

\* one worker: requests are served one after the other
Init ==
    /\ settings \in Settings
    /\ index = Catalog
    /\ cache \in InitialCaches
    /\ req = [r \in {1} |-> IdleRequest]
    /\ last = NoRequest
    /\ served = 0
    /\ dd = NoDedup
    /\ mc = NoMatch

\* two workers on the same database, with both keys configured and the
\* provider holding one program
InitConc ==
    /\ settings = [careeronestop_api_key |-> TRUE, openai_api_key |-> TRUE]
    /\ index = {RawA}
    /\ cache \in InitialCaches
    /\ req = [r \in {1, 2} |-> IdleRequest]
    /\ last = NoRequest
    /\ served = 0
    /\ dd = NoDedup
    /\ mc = NoMatch

InitDedup ==
    /\ settings = [careeronestop_api_key |-> TRUE, openai_api_key |-> TRUE]
    /\ index = Catalog
    /\ cache = <<>>
    /\ req = [r \in {1} |-> IdleRequest]
    /\ last = NoRequest
    /\ served = 0
    /\ dd \in [stage : {"input"}, input : SeqsUpTo(Candidates, MaxLen),
               output : {<<>>}, again : {<<>>}, doubled : {<<>>}]
    /\ mc = NoMatch

Next ==
    \E r \in DOMAIN req :
        \/ CoalMinerBegin(r)
        \/ CacheRead(r)
        \/ Search(r)
        \/ Dedupe(r)
        \/ SaveSelect(r)
        \/ SaveInsert(r)
        \/ Respond(r)
        \/ search_live_training_programs(r)

NextDedup == DedupOnce \/ DedupAgain \/ DedupDoubled

\* match_constraints over every program and preference of the model
InitMatch ==
    /\ settings = [careeronestop_api_key |-> TRUE, openai_api_key |-> TRUE]
    /\ index = Catalog
    /\ cache = <<>>
    /\ req = [r \in {1} |-> IdleRequest]
    /\ last = NoRequest
    /\ served = 0
    /\ dd = NoDedup
    /\ mc \in [stage : {"program"}, program : MatchPrograms,
               user_constraints : UserConstraints,
               constraint_match : {Unmatched}]

NextMatch == Match

\* the enrichment over every list of up to MaxLen programs.  Settings declares
\* no google_maps_api_key, so geocode_address reads None for it; the model also
\* runs the lookups with a key.
InitEnrich ==
    /\ settings = [careeronestop_api_key |-> TRUE, openai_api_key |-> TRUE]
    /\ index = Catalog
    /\ cache = <<>>
    /\ req = [r \in {1} |-> IdleRequest]
    /\ last = NoRequest
    /\ served = 0
    /\ dd = NoDedup
    /\ mc \in [stage : {"programs"}, programs : SeqsUpTo(EnrichPrograms, MaxLen),
               user_constraints : EnrichConstraints,
               google_maps_api_key : BOOLEAN,
               geo : [Addresses -> {"success", "error"}],
               enhanced : {<<>>}, ranked : {[coal |-> <<>>, general |-> <<>>]}]

NextEnrich == Enrich \/ Rank

\* one worker on an empty cache, with both keys configured and a provider
\* holding two programs of different names
InitRound ==
    /\ settings = [careeronestop_api_key |-> TRUE, openai_api_key |-> TRUE]
    /\ index = {RawA, RawC}
    /\ cache = <<>>
    /\ req = [r \in {1} |-> IdleRequest]
    /\ last = NoRequest
    /\ served = 0
    /\ dd = NoDedup
    /\ mc = Rounds

\* the end of the pipeline's stream over every final text of up to MaxText
\* tokens, or none, with the text parts collected before it
InitParse ==
    /\ settings = [careeronestop_api_key |-> TRUE, openai_api_key |-> TRUE]
    /\ index = Catalog
    /\ cache = <<>>
    /\ req = [r \in {1} |-> IdleRequest]
    /\ last = NoRequest
    /\ served = 0
    /\ dd = NoDedup
    /\ mc \in [stage : {"streamed"},
               final_text : SeqsUpTo({ Token[k] : k \in DOMAIN Token }, MaxText)
                            \cup {NoneVal},
               all_responses : SeqsUpTo({ <<Token.open, Token.status_success,
                                           Token.close>>,
                                         <<Token.prose>> }, 1),
               parsed : {NoneVal},
               result : {SearchResult(FALSE, 0, "none")}]

\* the job store of a process that has just started
InitJob ==
    /\ settings = [careeronestop_api_key |-> TRUE, openai_api_key |-> TRUE]
    /\ index = Catalog
    /\ cache = <<>>
    /\ req = [r \in {1} |-> IdleRequest]
    /\ last = NoRequest
    /\ served = 0
    /\ dd = NoDedup
    /\ mc = [stage |-> "jobs", JOBS |-> <<>>, task |-> <<>>,
             response |-> [status_code |-> 0, job_id |-> 0, status |-> "none",
                           steps |-> <<>>, result |-> NoneVal, error |-> NoneVal]]

NextJob ==
    \/ ask_agent
    \/ \E job_id \in 1..MaxJobs :
          \/ run_job_event(job_id)
          \/ run_job_finish(job_id)
          \/ run_job_except(job_id)
          \/ get_status(job_id)

Spec == Init /\ [][Next]_vars
SpecConc == InitConc /\ [][Next]_vars
SpecDedup == InitDedup /\ [][NextDedup]_vars
SpecMatch == InitMatch /\ [][NextMatch]_vars
SpecEnrich == InitEnrich /\ [][NextEnrich]_vars
SpecRound == InitRound /\ [][Next]_vars
SpecParse == InitParse /\ [][search_training_programs]_vars
SpecJob == InitJob /\ [][NextJob]_vars


(***************************************************************************)
(* Properties.                                                             *)
(***************************************************************************)
Workers == DOMAIN req

Answered(r) == req[r].pc = "done"

FromCache(r) == req[r].resp.data_source = "our curated database"
FromSearch(r) == req[r].resp.data_source = "CareerOneStop"

NameSet(names) == { names[i] : i \in 1..Len(names) }

C3_ForcedRefreshSearches ==
    \A r \in Workers :
        (/\ Answered(r) /\ req[r].endpoint = "live"
         /\ req[r].checked /\ settings.openai_api_key)
            => req[r].resp.status = 200

\* C4: when a request that ran the search is answered and its write-through
\* did not fail, the cache holds a row under (program_name, state) for every
\* program of its list.
C4_WrittenBeforeReturned ==
    \A r \in Workers :
        (Answered(r) /\ req[r].resp.status = 200 /\ FromSearch(r) /\ req[r].save # "failed")
            => \A i \in 1..Len(req[r].programs_list) :
                  \E j \in 1..Len(cache) :
                     /\ cache[j].program_name = req[r].programs_list[i].program_name
                     /\ cache[j].state = req[r].user_state

C4_Witness ==
    \E r \in Workers :
        /\ Answered(r) /\ FromSearch(r) /\ req[r].save = "ok"
        /\ Len(req[r].programs_list) = 2
        /\ req[r].inserts >= 1 /\ req[r].skips >= 1


\* the rows of the cache under a program's identity key
RowsUnder(program, user_state) ==
    { j \in 1..Len(cache) :
        cache[j].program_name = program.program_name /\ cache[j].state = user_state }

UniqueKeys ==
    \A i, j \in 1..Len(cache) :
        (/\ NormalizeName(cache[i].program_name) = NormalizeName(cache[j].program_name)
         /\ cache[i].state = cache[j].state)
            => i = j

\* C6: when two requests for the same region both missed the cache, both ran
\* the search and both finished their write-through, the cache holds at most
\* one row per (normalized name, region).
C6_OneRowPerKey ==
    (/\ \A r \in Workers : Answered(r) /\ FromSearch(r) /\ req[r].save = "ok"
     /\ \A r1, r2 \in Workers : req[r1].user_state = req[r2].user_state)
        => UniqueKeys

\* the first position of a record's name in a candidate list
IsFirstSeen(candidates, i) ==
    /\ Truthy(FieldOf(candidates[i], "program_name"))
    /\ \A h \in 1..(i - 1) :
          FieldOf(candidates[h], "program_name") # FieldOf(candidates[i], "program_name")

Deduplicated == dd.stage \in {"once", "again", "doubled"}

C8_MergeBackfills ==
    Deduplicated =>
        \A i, j \in 1..Len(dd.input) :
            (/\ IsFirstSeen(dd.input, i) /\ i < j
             /\ FieldOf(dd.input[j], "program_name") = FieldOf(dd.input[i], "program_name"))
                => \A f \in ProgramFields :
                      (~Truthy(FieldOf(dd.input[i], f)) /\ Truthy(FieldOf(dd.input[j], f)))
                          => \E k \in 1..Len(dd.output) :
                                /\ dd.output[k].program_name
                                      = FieldOf(dd.input[i], "program_name")
                                /\ Truthy(dd.output[k][f])

\* C8, amended: nothing is merged.  The output record of a name is the
\* first-seen record of that name, field for field; a later record of the same
\* name is dropped and contributes no field.
C8_FirstSeenOnly ==
    Deduplicated =>
        /\ \A i \in 1..Len(dd.input) :
              IsFirstSeen(dd.input, i)
                  => \E k \in 1..Len(dd.output) :
                        \A f \in ProgramFields :
                           dd.output[k][f] = FieldOf(dd.input[i], f)
        /\ Len(dd.output) = Cardinality({ i \in 1..Len(dd.input) : IsFirstSeen(dd.input, i) })

C8_Witness ==
    /\ Deduplicated
    /\ \E i, j \in 1..Len(dd.input) :
          /\ IsFirstSeen(dd.input, i) /\ i < j
          /\ FieldOf(dd.input[j], "program_name") = FieldOf(dd.input[i], "program_name")
          /\ \E f \in ProgramFields :
                /\ ~Truthy(FieldOf(dd.input[i], f)) /\ Truthy(FieldOf(dd.input[j], f))
                /\ \E k \in 1..Len(dd.output) :
                      /\ dd.output[k].program_name = FieldOf(dd.input[i], "program_name")
                      /\ ~Truthy(dd.output[k][f])

\* the deduplicator of a request kept every populated field of each first-seen
\* record
DedupKeepsPopulated(q) ==
    q.pc \in {"save_select", "save_insert", "rank", "done"} =>
        \A i \in 1..Len(q.all_programs) :
            IsFirstSeen(q.all_programs, i)
                => \E k \in 1..Len(q.programs_list) :
                      /\ q.programs_list[k].program_name
                            = FieldOf(q.all_programs[i], "program_name")
                      /\ \A f \in ProgramFields :
                            Truthy(FieldOf(q.all_programs[i], f))
                                => q.programs_list[k][f] = FieldOf(q.all_programs[i], f)

\* C9: a populated field of a first-seen record keeps its value through the
\* deduplicator whatever later records of the name carry, and a populated
\* field of a cached row keeps its value through every step of every request.
C9_PopulatedFieldsKept ==
    [][ /\ \A r \in Workers : DedupKeepsPopulated(req'[r])
        /\ \A j \in 1..Len(cache) :
              /\ j <= Len(cache')
              /\ \A f \in ProgramFields :
                    Truthy(cache[j][f]) => cache'[j][f] = cache[j][f] ]_vars

C9_Witness ==
    \E r \in Workers :
        /\ Answered(r) /\ req[r].save = "ok" /\ req[r].skips = 1
        /\ Len(req[r].all_programs) = 2 /\ Len(req[r].programs_list) = 1
        /\ req[r].all_programs[1] # req[r].all_programs[2]
        /\ \E j \in RowsUnder(req[r].programs_list[1], req[r].user_state) :
              \E f \in ProgramFields :
                 Truthy(cache[j][f]) /\ ~Truthy(req[r].programs_list[1][f])
        /\ \E f \in ProgramFields :
              /\ Truthy(req[r].programs_list[1][f])
              /\ FieldOf(req[r].all_programs[2], f) # req[r].programs_list[1][f]

\* C10: deduplicating a list followed by itself gives the list's own
\* deduplication, and deduplicating that again changes nothing.
C10_IdempotentMerge ==
    dd.stage = "doubled" => (dd.doubled = dd.output /\ dd.again = dd.output)

C10_Witness ==
    /\ dd.stage = "doubled"
    /\ Len(dd.output) = 2 /\ Len(dd.input) = 3
    /\ \E i \in 1..3 : DOMAIN dd.input[i] # ProgramFields
    /\ \E i \in 1..2 : \E f \in ProgramFields : Truthy(dd.output[i][f]) /\ f # "program_name"

(***************************************************************************)
(* Constraint matching.                                                    *)
(***************************************************************************)
Matched == mc.stage = "matched"

\* the preference is set
Preferred(key) == mc.user_constraints[key] \notin {NoneVal, Empty}

\* the program carries no text under the key: no key, None, or blanks only
NoText(key) ==
    \/ key \notin DOMAIN mc.program
    \/ mc.program[key] = NoneVal
    \/ \A i \in 1..Len(mc.program[key]) : mc.program[key][i] = " "

\* C11: for every program and every set preference, an axis whose information
\* the program lacks (no cost text for the budget, no schedule_type for travel
\* and for the schedule) is 'unknown', never 'yes' or 'no'
C11_MissingIsUnknown ==
    Matched =>
        /\ (Preferred("budget_constraint") /\ NoText("cost"))
              => mc.constraint_match.meets_budget = "unknown"
        /\ (Preferred("travel_constraint") /\ NoText("schedule_type"))
              => mc.constraint_match.meets_travel = "unknown"
        /\ (Preferred("scheduling") /\ NoText("schedule_type"))
              => mc.constraint_match.meets_schedule = "unknown"

C11_Witness ==
    /\ Matched
    /\ Preferred("budget_constraint") /\ NoText("cost")
    /\ Preferred("travel_constraint") /\ Preferred("scheduling")
    /\ NoText("schedule_type")
    /\ mc.constraint_match.meets_budget = "unknown"
    /\ mc.constraint_match.meets_travel = "unknown"
    /\ mc.constraint_match.meets_schedule = "unknown"
    /\ Len(mc.constraint_match.unknown_info) = 3

\* the cost text of the program, lower-cased ('' when it has none)
CostLower == IF NoText("cost") THEN <<>> ELSE Lower(mc.program.cost)

HasFreeIndicator ==
    \E word \in {FreeWord, GrantWord, FundedWord} : Contains(CostLower, word)

\* a cost text neither a price nor a free/grant/funded indicator can be read
\* from: it has no digit and none of the indicators
Unparseable ==
    /\ ~NoText("cost")
    /\ ~HasFreeIndicator
    /\ \A i \in 1..Len(CostLower) : ~IsDigit(CostLower[i])

\* C12: for every set budget tier, a non-empty cost text from which neither a
\* price nor a free/grant/funded indicator can be parsed ('contact for
\* pricing', 'varies') gets meets_budget = 'unknown', never 'no'
C12_UnparseableIsUnknown ==
    (Matched /\ Preferred("budget_constraint") /\ Unparseable)
        => mc.constraint_match.meets_budget = "unknown"

\* a positive dollar amount: '$', then digits with ',' and '.', not all zero
PositiveDollarAmount ==
    /\ Len(CostLower) >= 2
    /\ CostLower[1] = "$"
    /\ \A i \in 2..Len(CostLower) : IsDigit(CostLower[i]) \/ CostLower[i] \in {",", "."}
    /\ \E i \in 2..Len(CostLower) : IsDigit(CostLower[i]) /\ CostLower[i] # "0"

\* C13: with the budget tier 'free', a cost text with a free/grant/funded
\* indicator gets meets_budget = 'yes', and a cost text that is a positive
\* dollar amount gets meets_budget = 'no' with a non-empty list of mismatch
\* reasons
C13_FreeTier ==
    (Matched /\ mc.user_constraints.budget_constraint = FreeWord) =>
        /\ HasFreeIndicator => mc.constraint_match.meets_budget = "yes"
        /\ PositiveDollarAmount =>
              /\ mc.constraint_match.meets_budget = "no"
              /\ mc.constraint_match.mismatch_reasons # <<>>

\* C14: overall_match is true only if meets_budget, meets_travel and
\* meets_schedule are all 'yes'
C14_OverallOnlyIfAllYes ==
    (Matched /\ mc.constraint_match.overall_match) =>
        /\ mc.constraint_match.meets_budget = "yes"
        /\ mc.constraint_match.meets_travel = "yes"
        /\ mc.constraint_match.meets_schedule = "yes"

C14_Witness ==
    /\ Matched
    /\ mc.constraint_match.overall_match
    /\ mc.constraint_match.mismatch_reasons = <<>>
    /\ mc.constraint_match.unknown_info = <<>>

(***************************************************************************)
(* Scores, ranking and enrichment.                                         *)
(***************************************************************************)
IsEnhanced == mc.stage \in {"enhanced", "ranked"}
IsRanked == mc.stage = "ranked"

\* the lists the two rankings return
RankedLists == {mc.enhanced, mc.ranked.coal, mc.ranked.general}

\* C15: every match_score assigned to a program lies in 0..100, whatever the
\* keyword matches, location match, budget indicator and constraint verdicts
\* (calculate_relevance_score is kept in hundredths of a point)
C15_ScoreInRange ==
    /\ IsEnhanced =>
          \A i \in 1..Len(mc.enhanced) : mc.enhanced[i].match_score \in 0..100
    /\ IsRanked =>
          \A list \in {mc.ranked.coal, mc.ranked.general} :
              \A i \in 1..Len(list) : list[i].match_score \in 0..(100 * 100)

C15_Witness ==
    /\ IsRanked
    /\ \E i \in 1..Len(mc.enhanced) :
          /\ mc.enhanced[i].match_score = 100
          /\ mc.enhanced[i].constraint_match.overall_match
    /\ \E i \in 1..Len(mc.enhanced) : mc.enhanced[i].match_score < 100
    /\ \E i \in 1..Len(mc.ranked.coal) :
          /\ mc.ranked.coal[i].match_score > 80 * 100
          /\ mc.ranked.coal[i].location = WestVirginiaText

\* the scores are in descending order
Descending(list) ==
    \A i, j \in 1..Len(list) : i < j => list[i].match_score >= list[j].match_score

\* the programs of one score stand in the order the input has them
KeepsDiscoveryOrder(list) ==
    \A v \in { list[i].match_score : i \in 1..Len(list) } :
        LET tied == SelectSeq(list, LAMBDA program : program.match_score = v)
            names == NameSet(NamesOf(tied))
        IN  NamesOf(tied) = SelectSeq(NamesOf(mc.programs), LAMBDA name : name \in names)

\* C16: each returned list is ordered by match_score descending, and programs
\* of equal match_score keep their original discovery order
C16_StableDescending ==
    IsRanked => \A list \in RankedLists : Descending(list) /\ KeepsDiscoveryOrder(list)

C16_Witness ==
    /\ IsRanked
    /\ \E i \in 1..Len(mc.enhanced) - 1 :
          /\ mc.enhanced[i].match_score = mc.enhanced[i + 1].match_score
          /\ mc.enhanced[i].program_name # mc.enhanced[i + 1].program_name
    /\ NamesOf(mc.enhanced) # NamesOf(mc.programs)
    /\ \E i \in 1..Len(mc.ranked.coal) - 1 :
          /\ mc.ranked.coal[i].match_score = mc.ranked.coal[i + 1].match_score
          /\ mc.ranked.coal[i].program_name # mc.ranked.coal[i + 1].program_name
    /\ NamesOf(mc.ranked.coal) # NamesOf(mc.programs)

\* how often the name stands in the list
Count(list, name) == Cardinality({ i \in 1..Len(list) : list[i].program_name = name })

\* the lookup of the program's address succeeded
LookupSucceeded(program) ==
    /\ mc.google_maps_api_key
    /\ address_to_geocode(program) \in Addresses
    /\ mc.geo[address_to_geocode(program)] = "success"

\* C18: for any pattern of geocoding failures, every lookup failing and the
\* credential missing included, the enricher returns every input program
\* exactly once, with verdict and score, and with coordinates on those
\* programs only whose lookup succeeded
C18_GeocodingFailureIsolated ==
    IsEnhanced =>
        /\ Len(mc.enhanced) = Len(mc.programs)
        /\ \A program \in EnrichPrograms :
              Count(mc.enhanced, program.program_name)
                  = Count(mc.programs, program.program_name)
        /\ \A i \in 1..Len(mc.enhanced) :
              /\ "latitude" \in DOMAIN mc.enhanced[i] <=> LookupSucceeded(mc.enhanced[i])
              /\ "longitude" \in DOMAIN mc.enhanced[i] <=> LookupSucceeded(mc.enhanced[i])
              /\ "constraint_match" \in DOMAIN mc.enhanced[i]
              /\ "match_score" \in DOMAIN mc.enhanced[i]

C18_Witness ==
    /\ IsEnhanced
    /\ mc.google_maps_api_key
    /\ Len(mc.enhanced) = MaxLen
    /\ \E i, j \in 1..Len(mc.enhanced) :
          /\ "latitude" \in DOMAIN mc.enhanced[i]
          /\ "latitude" \notin DOMAIN mc.enhanced[j]
          /\ address_to_geocode(mc.enhanced[j]) \in Addresses
          /\ mc.geo[address_to_geocode(mc.enhanced[j])] = "error"

(***************************************************************************)
(* The rounds of queries of the cache-first endpoint.                      *)
(***************************************************************************)
\* the request has left the search loops behind
PastSearch(r) ==
    /\ req[r].endpoint = "coal"
    /\ req[r].read # "none"
    /\ req[r].search_queries # <<"database_cached">>
    /\ req[r].pc \in {"dedupe", "save_select", "save_insert", "rank", "done"}

\* the names of the named programs of a raw list
NamesFound(programs) ==
    { FieldOf(programs[i], "program_name") : i \in 1..Len(programs) } \ {NoneVal, Empty}

InSearchQueries(r, query) ==
    \E i \in 1..Len(req[r].search_queries) : req[r].search_queries[i] = query

\* every query of both rounds was issued, in the order of the handler
AllQueriesIssued(r) ==
    req[r].search_queries = coal_miner_searches \o renewable_searches

\* C17: when a query gets a non-200 response or a transport error, nothing is
\* raised, the remaining queries are still issued, and the final output
\* contains the programs of the queries that succeeded
C17_OutputHoldsSucceeded ==
    \A r \in Workers :
        (Answered(r) /\ PastSearch(r) /\ req[r].failed) =>
            /\ req[r].resp.status = 200
            /\ AllQueriesIssued(r)
            /\ NamesFound(req[r].found) \subseteq ReturnedNames(req[r].resp)

\* C17 as the handler has it: nothing is raised, the remaining queries are
\* still issued, and the programs of the queries that succeeded are the ones
\* deduplicated, cached and ranked; the response holds all of them when
\* max_results does not cut the ranked lists
C17_SearchFailureIsolated ==
    \A r \in Workers :
        (PastSearch(r) /\ req[r].failed) =>
            /\ AllQueriesIssued(r)
            /\ req[r].calls = Len(req[r].search_queries)
            /\ req[r].pc # "dedupe" =>
                  NameSet(NamesOf(req[r].programs_list)) = NamesFound(req[r].found)
            /\ Answered(r) =>
                  /\ req[r].resp.status = 200
                  /\ ReturnedNames(req[r].resp) \subseteq NamesFound(req[r].found)
                  /\ req[r].max_results >= Len(req[r].found) =>
                        ReturnedNames(req[r].resp) = NamesFound(req[r].found)

C17_Witness ==
    \E r \in Workers :
        /\ Answered(r) /\ PastSearch(r)
        /\ req[r].failed
        /\ Cardinality(NamesFound(req[r].found)) = MaxRaw
        /\ ReturnedNames(req[r].resp) = NamesFound(req[r].found)

C20_FallbackOnlyAdds ==
    \A r \in Workers :
        (Answered(r) /\ PastSearch(r)) =>
            /\ req[r].primary = 0 => AllQueriesIssued(r)
            /\ NamesFound(req[r].found) \subseteq ReturnedNames(req[r].resp)

\* the programs of the primary round, deduplicated
PrimaryPrograms(r) == Deduplicate(SubSeq(req[r].found, 1, req[r].primary))

\* C20 as the handler has it: the fallback queries are always issued; the
\* deduplicated list that is cached and ranked holds the primary round's
\* programs unchanged, followed by the fallback round's new ones; the response
\* holds the first max_results of each ranked list
C20_FallbackAugmentsMergedList ==
    \A r \in Workers :
        (PastSearch(r) /\ req[r].pc # "dedupe") =>
            /\ AllQueriesIssued(r)
            /\ SubSeq(req[r].programs_list, 1, Len(PrimaryPrograms(r)))
                  = PrimaryPrograms(r)
            /\ NameSet(NamesOf(req[r].programs_list)) = NamesFound(req[r].found)
            /\ Answered(r) =>
                  /\ ReturnedNames(req[r].resp) \subseteq NamesFound(req[r].found)
                  /\ Len(req[r].resp.coal_miner_specific_programs) <= req[r].max_results
                  /\ Len(req[r].resp.general_renewable_programs) <= req[r].max_results
                  /\ req[r].max_results >= Len(req[r].found) =>
                        ReturnedNames(req[r].resp) = NamesFound(req[r].found)

\* a fallback program is returned and a primary program is not
C20_Witness ==
    \E r \in Workers :
        /\ Answered(r) /\ PastSearch(r)
        /\ req[r].primary = 1 /\ Len(req[r].found) = 2
        /\ Len(req[r].programs_list) = 2
        /\ ReturnedNames(req[r].resp) = NamesFound(<<req[r].found[2]>>)
        /\ NamesFound(<<req[r].found[1]>>) # NamesFound(<<req[r].found[2]>>)

\* the region of request r is one the handlers can resolve to a search location
KnownRegion(r) == req[r].user_state \in DOMAIN STATE_ZIP_MAP

\* C21: a request whose region is missing or cannot be resolved to a known
\* region is answered with 400, and no search call and no cache write happens
\* for it
C21_UnresolvedRegionRejected ==
    \A r \in Workers :
        (Answered(r) /\ req[r].endpoint = "coal" /\ ~KnownRegion(r)
            /\ req[r].resp.status \notin {401, 500}) =>
            /\ req[r].resp.status = 400
            /\ req[r].calls = 0 /\ req[r].inserts = 0

\* request r had to search and the key its search needs is not configured
NeedsMissingKey(r) ==
    \/ req[r].endpoint = "live" /\ req[r].checked /\ ~settings.openai_api_key
    \/ PastSearch(r) /\ ~settings.careeronestop_api_key

\* C22: a request that has to run the live search while no search or
\* extraction credential is configured is answered with 503, on every endpoint
\* that runs a live search, and is not retried
C22_MissingKeyIsUnavailable ==
    \A r \in Workers :
        (Answered(r) /\ NeedsMissingKey(r)) =>
            req[r].resp.status = 503 /\ req[r].calls = 0

\* C22 as the handlers have it: without the OpenAI key the live endpoint
\* answers 503 and issues no query; without the CareerOneStop key the
\* cache-first endpoint goes through its eight queries once, none of which
\* reaches the provider, writes nothing and answers 200 with no program
C22_MissingKeyByEndpoint ==
    \A r \in Workers :
        (Answered(r) /\ NeedsMissingKey(r)) =>
            /\ req[r].calls = 0 /\ req[r].inserts = 0
            /\ req[r].endpoint = "live" =>
                  req[r].resp.status = 503 /\ req[r].search_queries = <<>>
            /\ req[r].endpoint = "coal" =>
                  /\ req[r].resp.status = 200
                  /\ req[r].resp.total_programs = 0
                  /\ req[r].search_queries = AllSearches

\* a cache-first request answered 200 without the key, after a live request
\* answered 503
C22_Witness ==
    \E r \in Workers :
        /\ Answered(r) /\ NeedsMissingKey(r)
        /\ req[r].endpoint = "coal" /\ req[r].resp.status = 200
        /\ req[r].pred.status = 503

\* every query of request r was answered by the provider, and none of the
\* answers held a program
FoundNothing(r) ==
    /\ PastSearch(r)
    /\ settings.careeronestop_api_key
    /\ req[r].calls = Len(AllSearches)
    /\ ~req[r].failed
    /\ req[r].found = <<>>

\* C23: when the pipeline runs with its credentials configured and finds no
\* program, the request ends in a 200 response with total_programs = 0, both
\* program lists empty and a non-empty explanatory message
C23_NothingFoundIsSuccess ==
    \A r \in Workers :
        (Answered(r) /\ FoundNothing(r)) =>
            /\ req[r].resp.status = 200
            /\ req[r].resp.total_programs = 0
            /\ req[r].resp.coal_miner_specific_programs = <<>>
            /\ req[r].resp.general_renewable_programs = <<>>
            /\ req[r].resp.message = "no training programs currently available"
            /\ req[r].resp.message # ""

\* a run whose eight queries all succeeded with no program, answered 200
C23_Witness ==
    \E r \in Workers :
        /\ Answered(r) /\ FoundNothing(r)
        /\ req[r].resp.status = 200
        /\ req[r].resp.queries_used = AllSearches
        /\ req[r].inserts = 0

\* request r went into a live search with every key configured
SearchedWithKeys(r) ==
    /\ settings.careeronestop_api_key /\ settings.openai_api_key
    /\ req[r].checked
    /\ req[r].endpoint = "live" \/ PastSearch(r)

\* C24: with all credentials configured, a failure inside the live pipeline
\* never produces an error response to the caller: the request completes
\* with a degraded, possibly empty, program set
C24_LiveSearchNeverErrors ==
    \A r \in Workers :
        (Answered(r) /\ SearchedWithKeys(r)) =>
            /\ req[r].resp.status = 200
            /\ req[r].resp.total_programs
                  = Len(req[r].resp.coal_miner_specific_programs)
                    + Len(req[r].resp.general_renewable_programs)

(***************************************************************************)
(* The final text of the pipeline.                                         *)
(***************************************************************************)
\* the text search_training_programs parsed is not a JSON document
NotJson == mc.parsed # NoneVal /\ json_loads(mc.parsed).raises

\* no part of the parsed text is a JSON document
NoJsonInside ==
    /\ mc.parsed # NoneVal
    /\ \A i, j \in 1..Len(mc.parsed) : json_loads(SubSeq(mc.parsed, i, j)).raises

Blocklisted(url) == \E kw \in Blocklist : Contains(Lower(url), kw)

\* the rows the write-through of a search has added
WrittenRows == SelectSeq(cache, LAMBDA record : record.source = "careeronestop")

Searching(r) ==
    /\ req[r].endpoint = "coal"
    /\ req[r].read # "none"
    /\ req[r].search_queries # <<"database_cached">>
    /\ req[r].pc \in {"search", "dedupe", "save_select", "save_insert", "rank", "done"}

\* C27: two runs for the same region that reach the live search issue the
\* same queries in the same order, independently of the cache content, of
\* earlier requests and of the results of earlier queries
C27_SameQueriesSameOrder ==
    /\ \A r1, r2 \in Workers :
          (Searching(r1) /\ Searching(r2)) =>
              \A i \in 1..Min(Len(req[r1].search_queries), Len(req[r2].search_queries)) :
                  req[r1].search_queries[i] = req[r2].search_queries[i]
    /\ \A r \in Workers :
          Searching(r) =>
              /\ req[r].search_queries
                    = SubSeq(coal_miner_searches \o renewable_searches,
                             1, Len(req[r].search_queries))
              /\ Answered(r) =>
                    req[r].resp.queries_used = coal_miner_searches \o renewable_searches

\* two answered runs for the same region whose queries found different
\* programs, the second on the cache the first had written to
C27_Witness ==
    \E r1, r2 \in Workers :
        /\ r1 # r2
        /\ Answered(r1) /\ Searching(r1) /\ Answered(r2) /\ Searching(r2)
        /\ req[r1].user_state = req[r2].user_state
        /\ req[r1].all_programs # <<>> /\ req[r2].all_programs = <<>>
        /\ req[r1].inserts > 0
        /\ req[r1].resp.queries_used = req[r2].resp.queries_used

\* C28: the constraint bonus of match_score follows the three-valued verdict:
\* a program whose overall_match is false gets the budget bonus only when
\* meets_budget is 'yes'; with 'no' or 'unknown' its score is the base score
\* plus only the occupation-specific bonus
C28_BudgetBonusOnlyForYes ==
    IsEnhanced =>
        \A i \in 1..Len(mc.enhanced) :
            LET program == mc.enhanced[i]
                specific == IF Get(program, "is_coal_miner_specific", FALSE) = TRUE
                            THEN 30 ELSE 0
            IN  ~program.constraint_match.overall_match =>
                    program.match_score
                        = 50 + specific
                          + (IF program.constraint_match.meets_budget = "yes"
                             THEN 10 ELSE 0)

(***************************************************************************)
(* A write-through that fails.                                             *)
(***************************************************************************)
\* request r has its write-through behind it
PastSave(r) ==
    /\ PastSearch(r)
    /\ req[r].pc \in {"rank", "done"}
    /\ req[r].programs_list # <<>>

\* C29: when writing one program of a batch fails, every other program of
\* the batch is still written, and the request still returns its full result
C29_FailureIsolatedPerProgram ==
    \A r \in Workers :
        (Answered(r) /\ PastSave(r) /\ req[r].save = "failed") =>
            /\ \A i \in 1..Len(req[r].programs_list) :
                  i # req[r].si =>
                      RowsUnder(req[r].programs_list[i], req[r].user_state) # {}
            /\ req[r].resp = Recommendation(req[r])

\* C29 as the function has it: a failure ends the write-through.  The
\* programs before the failing one have their rows, the failing one and those
\* after it are not dealt with, and the request is answered from its whole
\* list all the same
C29_FailureEndsTheSave ==
    \A r \in Workers :
        PastSave(r) =>
            /\ req[r].save \in {"ok", "failed"}
            /\ req[r].save = "ok" =>
                  req[r].inserts + req[r].skips = Len(req[r].programs_list)
            /\ req[r].save = "failed" =>
                  req[r].inserts + req[r].skips = req[r].si - 1
            /\ \A i \in 1..(req[r].inserts + req[r].skips) :
                  RowsUnder(req[r].programs_list[i], req[r].user_state) # {}
            /\ Answered(r) =>
                  /\ req[r].resp.status = 200
                  /\ req[r].resp = Recommendation(req[r])

\* the write of the first of two programs failed: the second has no row, and
\* both are returned
C29_Witness ==
    \E r \in Workers :
        /\ Answered(r) /\ PastSave(r) /\ req[r].save = "failed"
        /\ Len(req[r].programs_list) = 2 /\ req[r].si = 1
        /\ RowsUnder(req[r].programs_list[2], req[r].user_state) = {}
        /\ req[r].resp.total_programs = 2

(***************************************************************************)
(* The jobs of the agent endpoint.                                         *)
(***************************************************************************)
\* the job store, and the empty one where no job store is modelled
Jobs == IF mc.stage = "jobs" THEN mc.JOBS ELSE <<>>

\* the job's result and error fit its status
JobIsConsistent(job) ==
    /\ job.status \in {"running", "completed", "error"}
    /\ job.result # NoneVal <=> job.status = "completed"
    /\ job.error # NoneVal <=> job.status = "error"

\* the jobs' results and errors fit their statuses
JobsAreConsistent == \A job_id \in DOMAIN Jobs : JobIsConsistent(Jobs[job_id])

\* a new job is running; a running job stays so or becomes completed or error;
\* a job that is completed or error keeps its status, result and error
JobsStep ==
    /\ JobsAreConsistent'
    /\ DOMAIN Jobs \subseteq DOMAIN Jobs'
    /\ \A job_id \in DOMAIN Jobs' \ DOMAIN Jobs : Jobs'[job_id].status = "running"
    /\ \A job_id \in DOMAIN Jobs :
          /\ Jobs[job_id].status # "running" =>
                /\ Jobs'[job_id].status = Jobs[job_id].status
                /\ Jobs'[job_id].result = Jobs[job_id].result
                /\ Jobs'[job_id].error = Jobs[job_id].error

\* C30: every job starts with status 'running' and changes status at most
\* once, to 'completed' or to 'error', after which its status never changes;
\* in every reachable state the job's result is set exactly when its status is
\* 'completed' and its error is set exactly when its status is 'error'
C30_JobStatusChangesOnce == [][JobsStep]_vars

\* one job completed with its answer, another in error with an empty message,
\* and the completed job polled after it completed
C30_Witness ==
    /\ mc.stage = "jobs"
    /\ \E j1, j2 \in DOMAIN mc.JOBS :
          /\ mc.JOBS[j1].status = "completed"
          /\ mc.JOBS[j1].result = <<"answer", "answer">>
          /\ mc.JOBS[j2].status = "error" /\ mc.JOBS[j2].error = Empty
          /\ mc.response.status_code = 200 /\ mc.response.job_id = j1
          /\ mc.response.status = "completed"
          /\ mc.response.result = mc.JOBS[j1].result

====
